---- MODULE Spec2Model ----
(***************************************************************************)
(* A model of the TIFF/DNG decoder of github.com/mdouchement/tiff:         *)
(* the tag-directory parser (newIDF), the decoder set-up (newDecoder) and  *)
(* the block loop of Decode.  The input file is a sequence of bytes; the   *)
(* parser reads it with the byte order the header selects.                 *)
(*                                                                         *)
(* Machine words: a 16- or 32-bit quantity is an integer; a 64-bit word    *)
(* (Go's uint, one element of tag.val) is a pair <<hi32, lo32>>.           *)
(***************************************************************************)
EXTENDS Integers, Sequences, FiniteSets, TLC

\* ------------------------------------------------------------------------
\* Program constants (consts)
\* ------------------------------------------------------------------------

leHeader == <<73, 73, 42, 0>>    \* "II\x2A\x00"
beHeader == <<77, 77, 0, 42>>    \* "MM\x00\x2A"

ifdLen == 12

dtByte == 1
dtShort == 3
dtLong == 4
dtRational == 5
dtSRational == 10
dtDouble == 12

\* lengths[datatype], a Go array of 13 elements indexed from 0.
lengths == <<0, 1, 1, 2, 4, 8, 42, 42, 42, 42, 42, 42, 8>>

tImageWidth == 256
tImageLength == 257
tBitsPerSample == 258
tCompression == 259
tPhotometricInterpretation == 262
tStripOffsets == 273
tSamplesPerPixel == 277
tRowsPerStrip == 278
tStripByteCounts == 279
tTileWidth == 322
tTileLength == 323
tTileOffsets == 324
tTileByteCounts == 325
tPlanarConfiguration == 284
tPredictor == 317
tExtraSamples == 338
tSampleFormat == 339
tStonits == 37439

\* Tag ids and values the parser names but whose declarations are not in
\* the source tree; the numbers are those of the TIFF/EP and DNG tag tables.
tNewSubFileType == 254
tSubIFDs == 330
tCFARepeatPatternDim == 33421
tCFAPattern == 33422
tDNGVersion == 50706
tDNGBackwardVersion == 50707
tCFAPlaneColor == 50710
tCFALayout == 50711
tLinearizationTable == 50712
tBlackLevel == 50714
tWhiteLevel == 50717
tColorMatrix1 == 50721
tColorMatrix2 == 50722
tAsShotNeutral == 50728
tBaselineExposure == 50730
sftPrimaryImage == 0
pColorFilterArray == 32803

cNone == 1
cLZW == 5
cDeflate == 8
cPackBits == 32773
cDeflateOld == 32946
cSGILogRLE == 34676

pWhiteIsZero == 0
pBlackIsZero == 1
pRGB == 2
pPaletted == 3
pTransMask == 4
pCMYK == 5
pYCbCr == 6
pCIELab == 8
pLogL == 32844
pLogLuv == 32845

prNone == 1

\* ------------------------------------------------------------------------
\* Errors
\* ------------------------------------------------------------------------

NoErr == [kind |-> "none", msg |-> ""]
FormatError(m) == [kind |-> "format", msg |-> m]
UnsupportedError(m) == [kind |-> "unsupported", msg |-> m]
\* An error of the byte source (a positioned read past the end).
IOError == [kind |-> "io", msg |-> "unexpected EOF"]
\* A run-time panic (index or slice out of range): the call does not return.
Panic(m) == [kind |-> "panic", msg |-> m]

\* ------------------------------------------------------------------------
\* Bytes and byte order (encoding/binary)
\* ------------------------------------------------------------------------

Pow16 == 256 * 256

\* binary.ByteOrder.Uint16 of the 2 bytes b, Uint32 of the 4 bytes b.
Uint16(bo, b) ==
    IF bo = "LE" THEN b[1] + 256 * b[2] ELSE b[2] + 256 * b[1]

Uint32(bo, b) ==
    IF bo = "LE"
    THEN b[1] + 256 * b[2] + Pow16 * b[3] + Pow16 * 256 * b[4]
    ELSE b[4] + 256 * b[3] + Pow16 * b[2] + Pow16 * 256 * b[1]

\* binary.ByteOrder.Uint64 of the 8 bytes b, as <<hi32, lo32>>.
Uint64(bo, b) ==
    IF bo = "LE"
    THEN <<Uint32(bo, SubSeq(b, 5, 8)), Uint32(bo, SubSeq(b, 1, 4))>>
    ELSE <<Uint32(bo, SubSeq(b, 1, 4)), Uint32(bo, SubSeq(b, 5, 8))>>

\* uint(x) of a byte, uint16 or uint32 x.
Word(n) == <<0, n>>

\* int(w) of a 64-bit word (the model's inputs keep w below 2^31 wherever
\* the program converts; a larger word stops the check loudly).
AsInt(w) == w[1] * Pow16 * Pow16 + w[2]

\* w > n for a 64-bit word w and a number n below 2^31.
WordGT(w, n) == w[1] > 0 \/ w[2] > n

\* The decimal text of a word (exact below 2^32).
WordString(w) ==
    IF w[1] = 0 THEN ToString(w[2])
    ELSE ToString(w[1]) \o "*2^32+" \o ToString(w[2])

\* The positioned read of the byte source: n bytes at offset off, or an
\* error when the range is not inside the file.
ReadAtOK(f, off, n) == n <= Len(f) /\ off <= Len(f) - n

ReadAt(f, off, n) == SubSeq(f, off + 1, off + n)

\* ------------------------------------------------------------------------
\* tag
\* ------------------------------------------------------------------------

\* An absent map entry reads as the zero tag.
ZeroTag == [id |-> 0, datatype |-> 0, val |-> <<>>]

Lookup(m, t) == IF t \in DOMAIN m THEN m[t] ELSE ZeroTag

TagFirstVal(t) == IF Len(t.val) = 0 THEN Word(0) ELSE t.val[1]

firstVal(features, t) == TagFirstVal(Lookup(features, t))

minInt(a, b) == IF a <= b THEN a ELSE b

\* big.NewRat(a, b): the fraction a/b, and a panic when b is zero.  A
\* result is [panic, kind, num, denom, bits]; kind "rat" carries the
\* fraction num/denom, "bits" a float64 pattern, "uint" an integer word.
NewRat(a, b) ==
    IF b = 0
    THEN [panic |-> TRUE, kind |-> "rat", num |-> a, denom |-> b,
          bits |-> Word(0)]
    ELSE [panic |-> FALSE, kind |-> "rat", num |-> a, denom |-> b,
          bits |-> Word(0)]

\* int32(x) of a 32-bit word; the words of the model stay below 2^31,
\* where the conversion changes nothing.
int32(x) == x

\* tag.rational(index): the numerator is the low half of the 64-bit word,
\* the denominator its high half.
rational(t, index) ==
    IF Len(t.val) <= index THEN NewRat(0, 0)
    ELSE LET u64 == t.val[index + 1]
         IN  NewRat(u64[2], u64[1])

\* tag.sRational(index)
sRational(t, index) ==
    IF Len(t.val) <= index THEN NewRat(0, 0)
    ELSE LET u64 == t.val[index + 1]
         IN  NewRat(int32(u64[2]), int32(u64[1]))

\* tag.double(index): the float64 whose bit pattern is the word.
double(t, index) ==
    [panic |-> FALSE, kind |-> "bits", num |-> 0, denom |-> 0,
     bits |-> IF Len(t.val) <= index THEN Word(0) ELSE t.val[index + 1]]

\* tag.asFloat(index): the float64 nearest the fraction, the double, or
\* the integer converted.
asFloat(t, index) ==
    IF t.datatype = dtRational THEN rational(t, index)
    ELSE IF t.datatype = dtSRational THEN sRational(t, index)
    ELSE IF t.datatype = dtDouble THEN double(t, index)
    ELSE [panic |-> FALSE, kind |-> "uint", num |-> 0, denom |-> 0,
          bits |-> IF Len(t.val) <= index THEN Word(0)
                   ELSE t.val[index + 1]]

\* ------------------------------------------------------------------------
\* idf.ifdUint: decode one 12-byte IFD entry
\* ------------------------------------------------------------------------

\* lengths[datatype] * count in uint32 arithmetic, as <<hi16, lo16>>
\* (count < 2^31).
datalenOf(datatype, count) ==
    LET L == lengths[datatype + 1]
        x == L * (count % Pow16)
        y == L * (count \div Pow16) + (x \div Pow16)
    IN  <<y % Pow16, x % Pow16>>

\* The product lengths[datatype] * count does not fit 32 bits.
datalenWraps(datatype, count) ==
    LET L == lengths[datatype + 1]
        x == L * (count % Pow16)
    IN  L * (count \div Pow16) + (x \div Pow16) >= Pow16

\* "datalen > 4": the entry holds a pointer to the value.
isPointer(datatype, count) ==
    LET d == datalenOf(datatype, count) IN d[1] > 0 \/ d[2] > 4

entryTag(bo, p) == Uint16(bo, SubSeq(p, 1, 2))
entryDatatype(bo, p) == Uint16(bo, SubSeq(p, 3, 4))
entryCount(bo, p) == Uint32(bo, SubSeq(p, 5, 8))
entryOffset(bo, p) == Uint32(bo, SubSeq(p, 9, 12))

\* The read of the out-of-line value succeeds.
pointerReadOK(f, off, d) ==
    d[1] < Pow16 \div 2 /\ ReadAtOK(f, off, d[1] * Pow16 + d[2])

\* The cases of the switch on datatype that decode values.
IsSupportedDatatype(datatype) ==
    datatype \in {dtByte, dtShort, dtLong, dtRational, dtSRational, dtDouble}

\* u[i] for i in 1..count, from the raw value bytes.
decodeValues(bo, datatype, count, raw) ==
    [i \in 1..count |->
        IF datatype = dtByte THEN Word(raw[i])
        ELSE IF datatype = dtShort
        THEN Word(Uint16(bo, SubSeq(raw, 2 * i - 1, 2 * i)))
        ELSE IF datatype = dtLong
        THEN Word(Uint32(bo, SubSeq(raw, 4 * i - 3, 4 * i)))
        ELSE Uint64(bo, SubSeq(raw, 8 * i - 7, 8 * i))]

\* ifdUint(p): [err, u, dt] and, for the record, whether the value was
\* read from the source (ptr) and where.
ifdUint(bo, f, p) ==
    LET datatype == entryDatatype(bo, p)
        count == entryCount(bo, p)
        fail(e, ptr) == [err |-> e, u |-> <<>>, dt |-> 0, ptr |-> ptr,
                         at |-> IF ptr THEN entryOffset(bo, p) ELSE 0]
    IN  IF datatype >= Len(lengths)
        THEN fail(Panic("index out of range"), FALSE)
        ELSE
        LET d == datalenOf(datatype, count)
            ptr == isPointer(datatype, count)
            raw == IF ptr
                   THEN ReadAt(f, entryOffset(bo, p), d[1] * Pow16 + d[2])
                   ELSE SubSeq(p, 9, 8 + d[2])
        IN  IF ptr /\ ~pointerReadOK(f, entryOffset(bo, p), d)
            THEN fail(IOError, TRUE)
            ELSE IF ~IsSupportedDatatype(datatype)
            THEN fail(UnsupportedError("data type"), ptr)
            ELSE IF datalenWraps(datatype, count)
            THEN fail(Panic("slice bounds out of range"), ptr)
            ELSE [err |-> NoErr,
                  u |-> decodeValues(bo, datatype, count, raw),
                  dt |-> datatype, ptr |-> ptr,
                  at |-> IF ptr THEN entryOffset(bo, p) ELSE 0]

\* ------------------------------------------------------------------------
\* idf.parseIFD: keep the entry if its tag is on the allow-list
\* ------------------------------------------------------------------------

RecognizedTags ==
    {tBitsPerSample, tExtraSamples, tPhotometricInterpretation, tCompression,
     tPredictor, tNewSubFileType, tSubIFDs, tStripOffsets, tStripByteCounts,
     tSamplesPerPixel, tRowsPerStrip, tTileWidth, tTileLength, tTileOffsets,
     tTileByteCounts, tPlanarConfiguration, tImageLength, tImageWidth,
     tStonits, tCFARepeatPatternDim, tCFAPattern, tDNGVersion,
     tDNGBackwardVersion, tCFAPlaneColor, tCFALayout, tLinearizationTable,
     tBlackLevel, tWhiteLevel, tColorMatrix1, tColorMatrix2, tAsShotNeutral,
     tBaselineExposure}

\* m with key k set to v (m[k] = v on a Go map).
MapPut(m, k, v) ==
    [x \in (DOMAIN m) \cup {k} |-> IF x = k THEN v ELSE m[x]]

EmptyMap == [x \in {} |-> ZeroTag]

sampleFormatRejectsAlt(u) == Len(u) > 0 /\ u[1] = Word(1)

\* The loop over the SampleFormat values: some value is 1.
sampleFormatRejects(u) == \E i \in 1..Len(u) : u[i] = Word(1)

\* parseIFD(fi, p) on the IFD map ifd = tree[fi]: [err, ifd].
parseIFD(bo, f, ifd, p) ==
    LET tid == entryTag(bo, p)
        r == ifdUint(bo, f, p)
    IN  IF tid \in RecognizedTags
        THEN IF r.err # NoErr
             THEN [err |-> r.err, ifd |-> ifd]
             ELSE [err |-> NoErr,
                   ifd |-> MapPut(ifd, tid,
                              [id |-> tid, datatype |-> r.dt, val |-> r.u])]
        ELSE IF tid = tSampleFormat
        THEN IF r.err # NoErr
             THEN [err |-> r.err, ifd |-> ifd]
             ELSE IF sampleFormatRejects(r.u)
             THEN [err |-> UnsupportedError("sample format"), ifd |-> ifd]
             ELSE [err |-> NoErr, ifd |-> ifd]
        ELSE [err |-> NoErr, ifd |-> ifd]

\* ------------------------------------------------------------------------
\* State
\* ------------------------------------------------------------------------

VARIABLES
    file,        \* the input: the bytes of the source r
    api,         \* the entry point called: "Decode" or "DecodeConfig"
    pc,          \* the position of the call
    byteOrder,   \* idf.byteOrder: "none", "LE" or "BE"
    ifdOffset,   \* the offset of the IFD being opened
    format,      \* idf.format: "TIFF" or "DNG"
    features,    \* idf.features
    tree,        \* idf.tree, slot fi at index fi + 1
    cur,         \* appendAndParseIDF's frame: [fi, p, i]
    config,      \* decoder.config: [Width, Height]
    mode,        \* decoder.mode
    bpp,         \* decoder.bpp
    geo,         \* the block geometry computed by Decode
    m,           \* the raster Decode allocates, or Nil
    blk,         \* the loop indices of Decode: [i, j]
    buf,         \* decoder.buf
    err,         \* the error the call ends with
    ret,         \* the image (or config) the call returns
    codec,       \* history: the codec the last call of decompress chose
    decompressed,\* history: the blocks <<i, j>> handed to decompress
    rasterized   \* history: the blocks <<i, j>> handed to decode

vars == <<file, api, pc, byteOrder, ifdOffset, format, features, tree, cur,
          config, mode, bpp, geo, m, blk, buf, err, ret, codec,
          decompressed, rasterized>>

parseVars == <<byteOrder, ifdOffset, format, features, tree, cur>>
decoderVars == <<config, mode, bpp>>
loopVars == <<geo, m, blk, buf, codec, decompressed, rasterized>>

\* The nil image.
Nil == [nil |-> TRUE]
NoFrame == [fi |-> 0, p |-> <<>>, i |-> 0]
NoGeo == [blockPadding |-> FALSE, blockWidth |-> 0, blockHeight |-> 0,
          blocksAcross |-> 0, blocksDown |-> 0,
          blockOffsets |-> <<>>, blockCounts |-> <<>>]

FailAlt(e) == /\ pc' = "done"
              /\ err' = e
              /\ ret' = m

\* The call ends with error e and returns no image.
Fail(e) == /\ pc' = "done"
           /\ err' = e
           /\ ret' = Nil

\* ------------------------------------------------------------------------
\* newIDF
\* ------------------------------------------------------------------------

headerOrderAlt(h) == IF h = beHeader THEN "LE"
                     ELSE IF h = leHeader THEN "BE" ELSE "none"

\* The switch on string(p[0:4]).
headerOrder(h) == IF h = leHeader THEN "LE"
                  ELSE IF h = beHeader THEN "BE" ELSE "none"

\* newIDF up to the call of appendAndParseIDF(0, ifdOffset).
ReadHeader ==
    /\ pc = "newIDF"
    /\ IF ~ReadAtOK(file, 0, 8)
       THEN /\ Fail(IOError)
            /\ UNCHANGED parseVars
       ELSE LET p == ReadAt(file, 0, 8)
                bo == headerOrder(SubSeq(p, 1, 4))
            IN  IF bo = "none"
                THEN /\ Fail(FormatError("malformed header"))
                     /\ UNCHANGED parseVars
                ELSE /\ byteOrder' = bo
                     /\ ifdOffset' = Uint32(bo, SubSeq(p, 5, 8))
                     /\ cur' = [fi |-> 0, p |-> <<>>, i |-> 0]
                     /\ pc' = "openIFD"
                     /\ UNCHANGED <<format, features, tree, err, ret>>
    /\ UNCHANGED <<file, api>>
    /\ UNCHANGED decoderVars
    /\ UNCHANGED loopVars

\* The position after the entries of IFD fi: the main IFD returns into
\* newIDF, a sub-IFD into the loop over the SubIFDs offsets.
afterEntries(fi) == IF fi = 0 THEN "mainIFD" ELSE "subIFDs"

\* appendAndParseIDF(fi, ifdOffset) up to its loop over the entries.
OpenIFD ==
    /\ pc = "openIFD"
    /\ tree' = Append(tree, EmptyMap)
    /\ IF ~ReadAtOK(file, ifdOffset, 2)
       THEN /\ Fail(IOError)
            /\ UNCHANGED cur
       ELSE LET numItems == Uint16(byteOrder, ReadAt(file, ifdOffset, 2))
            IN  IF ~ReadAtOK(file, ifdOffset + 2, ifdLen * numItems)
                THEN /\ Fail(IOError)
                     /\ UNCHANGED cur
                ELSE /\ cur' = [cur EXCEPT
                           !.p = ReadAt(file, ifdOffset + 2, ifdLen * numItems),
                           !.i = 0]
                     /\ pc' = IF numItems = 0 THEN afterEntries(cur.fi)
                              ELSE "parseIFD"
                     /\ UNCHANGED <<err, ret>>
    /\ UNCHANGED <<file, api, byteOrder, ifdOffset, format, features>>
    /\ UNCHANGED decoderVars
    /\ UNCHANGED loopVars

\* One iteration of appendAndParseIDF's loop: parseIFD(fi, p[i:i+ifdLen]).
ParseEntry ==
    /\ pc = "parseIFD"
    /\ LET e == SubSeq(cur.p, cur.i + 1, cur.i + ifdLen)
           r == parseIFD(byteOrder, file, tree[cur.fi + 1], e)
       IN  IF r.err # NoErr
           THEN /\ Fail(r.err)
                /\ UNCHANGED <<tree, cur>>
           ELSE /\ tree' = [tree EXCEPT ![cur.fi + 1] = r.ifd]
                /\ cur' = [cur EXCEPT !.i = cur.i + ifdLen]
                /\ pc' = IF cur.i + ifdLen < Len(cur.p) THEN "parseIFD"
                         ELSE afterEntries(cur.fi)
                /\ UNCHANGED <<err, ret>>
    /\ UNCHANGED <<file, api, byteOrder, ifdOffset, format, features>>
    /\ UNCHANGED decoderVars
    /\ UNCHANGED loopVars

subIDFsAlt(f) ==
    IF Len(Lookup(f, tSubIFDs).val) > 1 THEN Tail(Lookup(f, tSubIFDs).val)
    ELSE Lookup(f, tSubIFDs).val

\* The SubIFDs offsets newIDF ranges over.
subIDFs(f) == Lookup(f, tSubIFDs).val

\* newIDF after the main IFD: copy tree[0] into features, set the format.
MainIFD ==
    /\ pc = "mainIFD"
    /\ features' = tree[1]
    /\ format' = IF tDNGVersion \in DOMAIN tree[1] THEN "DNG" ELSE "TIFF"
    /\ pc' = "subIFDs"
    /\ UNCHANGED <<file, api, byteOrder, ifdOffset, tree, cur, err, ret>>
    /\ UNCHANGED decoderVars
    /\ UNCHANGED loopVars

\* newIDF's loop over subIDFs.val: the next appendAndParseIDF(fi+1, offset),
\* or the end of the loop.
SubIFDs ==
    /\ pc = "subIFDs"
    /\ IF cur.fi < Len(subIDFs(features))
       THEN /\ cur' = [fi |-> cur.fi + 1, p |-> <<>>, i |-> 0]
            /\ ifdOffset' = AsInt(subIDFs(features)[cur.fi + 1])
            /\ pc' = "openIFD"
       ELSE /\ pc' = "primary"
            /\ UNCHANGED <<cur, ifdOffset>>
    /\ UNCHANGED <<file, api, byteOrder, format, features, tree, err, ret>>
    /\ UNCHANGED decoderVars
    /\ UNCHANGED loopVars

firstPrimaryAlt(t, k) ==
    LET S == {j \in k..Len(t) :
                /\ tNewSubFileType \in DOMAIN t[j]
                /\ Len(t[j][tNewSubFileType].val) > 0
                /\ t[j][tNewSubFileType].val[1] = Word(sftPrimaryImage)}
    IN  [panic |-> FALSE,
         slot |-> IF S = {} THEN 0 ELSE CHOOSE j \in S : \A i \in S : i <= j]

RECURSIVE firstPrimary(_, _)
\* The scan for the primary image from slot k on: the result is
\* [panic, slot], slot = 0 when no IFD is flagged.
firstPrimary(t, k) ==
    IF k > Len(t) THEN [panic |-> FALSE, slot |-> 0]
    ELSE IF tNewSubFileType \notin DOMAIN t[k] THEN firstPrimary(t, k + 1)
    ELSE IF Len(t[k][tNewSubFileType].val) = 0
    THEN [panic |-> TRUE, slot |-> 0]
    ELSE IF t[k][tNewSubFileType].val[1] = Word(sftPrimaryImage)
    THEN [panic |-> FALSE, slot |-> k]
    ELSE firstPrimary(t, k + 1)

overlayAlt(f, g) == g

\* "for k, v := range features { d.features[k] = v }".
overlay(f, g) ==
    [x \in (DOMAIN f) \cup (DOMAIN g) |-> IF x \in DOMAIN g THEN g[x] ELSE f[x]]

\* newIDF's last block: in a DNG file the primary image's tags are put
\* over the feature map.
Primary ==
    /\ pc = "primary"
    /\ IF format = "DNG"
       THEN LET r == firstPrimary(tree, 1)
            IN  IF r.panic
                THEN /\ Fail(Panic("index out of range"))
                     /\ UNCHANGED features
                ELSE /\ features' = IF r.slot = 0 THEN features
                                    ELSE overlay(features, tree[r.slot])
                     /\ pc' = "newDecoder"
                     /\ UNCHANGED <<err, ret>>
       ELSE /\ pc' = "newDecoder"
            /\ UNCHANGED <<features, err, ret>>
    /\ UNCHANGED <<file, api, byteOrder, ifdOffset, format, tree, cur>>
    /\ UNCHANGED decoderVars
    /\ UNCHANGED loopVars

\* ------------------------------------------------------------------------
\* newDecoder
\* ------------------------------------------------------------------------

isColorFilterArray(ph) == ph = Word(pColorFilterArray)

\* The photometric values of the first case group of the switch.
isDroppedLDR(ph) ==
    ph \in {Word(pWhiteIsZero), Word(pBlackIsZero), Word(pPaletted),
            Word(pTransMask), Word(pCMYK)}

photometricModeAlt(ph) ==
    IF ph = Word(pRGB) THEN [err |-> NoErr, mode |-> "mRGB"]
    ELSE IF ph = Word(pLogL) THEN [err |-> NoErr, mode |-> "mLogL"]
    ELSE IF ph = Word(pLogLuv) THEN [err |-> NoErr, mode |-> "mLogLuv"]
    ELSE IF isColorFilterArray(ph)
    THEN [err |-> NoErr, mode |-> "mColorFilterArray"]
    ELSE IF ph = Word(pYCbCr) THEN [err |-> NoErr, mode |-> "mRGB"]
    ELSE [err |-> UnsupportedError("color model"), mode |-> "mBilevel"]

\* The switch on firstVal(tPhotometricInterpretation): [err, mode].
photometricMode(ph) ==
    IF isDroppedLDR(ph)
    THEN [err |-> UnsupportedError(
                    "color model, use Golang's lib for LDR images"),
          mode |-> "mBilevel"]
    ELSE IF ph = Word(pRGB) THEN [err |-> NoErr, mode |-> "mRGB"]
    ELSE IF ph = Word(pLogL) THEN [err |-> NoErr, mode |-> "mLogL"]
    ELSE IF ph = Word(pLogLuv) THEN [err |-> NoErr, mode |-> "mLogLuv"]
    ELSE IF isColorFilterArray(ph)
    THEN [err |-> NoErr, mode |-> "mColorFilterArray"]
    ELSE [err |-> UnsupportedError("color model"), mode |-> "mBilevel"]

\* newDecoder after newIDF has returned; DecodeConfig returns d.config,
\* Decode goes on to the block geometry.
NewDecoder ==
    /\ pc = "newDecoder"
    /\ config' = [Width |-> AsInt(firstVal(features, tImageWidth)),
                  Height |-> AsInt(firstVal(features, tImageLength))]
    /\ IF tBitsPerSample \notin DOMAIN features
       THEN /\ Fail(FormatError("BitsPerSample tag missing"))
            /\ UNCHANGED <<bpp, mode>>
       ELSE LET r == photometricMode(
                        firstVal(features, tPhotometricInterpretation))
            IN  /\ bpp' = AsInt(firstVal(features, tBitsPerSample))
                /\ IF r.err # NoErr
                   THEN /\ Fail(r.err)
                        /\ UNCHANGED mode
                   ELSE /\ mode' = r.mode
                        /\ IF api = "DecodeConfig"
                           THEN /\ pc' = "done"
                                /\ ret' = config'
                                /\ UNCHANGED err
                           ELSE /\ pc' = "geometry"
                                /\ UNCHANGED <<err, ret>>
    /\ UNCHANGED <<file, api>>
    /\ UNCHANGED parseVars
    /\ UNCHANGED loopVars

\* ------------------------------------------------------------------------
\* Decode: block geometry and bit depth
\* ------------------------------------------------------------------------

ceilDiv(a, b) == (a + b - 1) \div b

\* The strip branch.
stripGeometry(f, c) ==
    LET rps == AsInt(firstVal(f, tRowsPerStrip))
        bh == IF rps # 0 THEN rps ELSE c.Height
    IN  [blockPadding |-> FALSE,
         blockWidth |-> c.Width,
         blockHeight |-> bh,
         blocksAcross |-> IF c.Width = 0 THEN 0 ELSE 1,
         blocksDown |-> IF bh # 0 THEN ceilDiv(c.Height, bh)
                        ELSE IF c.Height = 0 THEN 0 ELSE 1,
         blockOffsets |-> Lookup(f, tStripOffsets).val,
         blockCounts |-> Lookup(f, tStripByteCounts).val]

\* The tile branch.
tileGeometry(f, c) ==
    LET bw == AsInt(firstVal(f, tTileWidth))
        bh == AsInt(firstVal(f, tTileLength))
    IN  [blockPadding |-> TRUE,
         blockWidth |-> bw,
         blockHeight |-> bh,
         blocksAcross |-> IF bw # 0 THEN ceilDiv(c.Width, bw)
                          ELSE IF c.Width = 0 THEN 0 ELSE 1,
         blocksDown |-> IF bh # 0 THEN ceilDiv(c.Height, bh)
                        ELSE IF c.Height = 0 THEN 0 ELSE 1,
         blockOffsets |-> Lookup(f, tTileOffsets).val,
         blockCounts |-> Lookup(f, tTileByteCounts).val]

\* The block geometry Decode computes from the feature map.
blockGeometry(f, c) ==
    IF AsInt(firstVal(f, tTileWidth)) # 0
    THEN tileGeometry(f, c) ELSE stripGeometry(f, c)

geometryOKAlt(g) ==
    Len(g.blockOffsets) >= g.blocksAcross * g.blocksDown

\* The check of the number of offsets and counts passes.
geometryOK(g) ==
    LET n == g.blocksAcross * g.blocksDown
    IN  ~(Len(g.blockOffsets) < n \/ Len(g.blockCounts) < n)

Geometry ==
    /\ pc = "geometry"
    /\ geo' = blockGeometry(features, config)
    /\ IF geometryOK(geo')
       THEN /\ pc' = "bitDepth"
            /\ UNCHANGED <<err, ret>>
       ELSE Fail(FormatError("inconsistent header"))
    /\ UNCHANGED <<file, api, m, blk, buf, codec, decompressed, rasterized>>
    /\ UNCHANGED parseVars
    /\ UNCHANGED decoderVars

\* hdr.NewRGB(bounds) / hdr.NewXYZ(bounds): no pixel has been set.
NewRaster(w, h) ==
    [w |-> w, h |-> h,
     px |-> [pt \in (0..(w - 1)) \X (0..(h - 1)) |-> <<>>]]

bitDepthOKAlt(md, b) ==
    \/ md = "mRGB" /\ b = 32
    \/ md = "mLogL" /\ b = 16
    \/ md = "mLogLuv" /\ b = 16
    \/ md = "mColorFilterArray" /\ b \in {8, 16}

\* The switch on d.mode: the raster is allocated.
bitDepthOK(md, b) ==
    \/ md = "mRGB" /\ b = 32
    \/ md = "mLogL" /\ b = 16
    \/ md = "mLogLuv" /\ b = 16
    \/ md = "mColorFilterArray" /\ b = 16

bitDepthMessage(md) ==
    IF md = "mRGB"
    THEN "Invalid BitsPerSample for RGB 32 bits floating-point format"
    ELSE IF md = "mLogL" THEN "Invalid BitsPerSample for LogL format"
    ELSE IF md = "mLogLuv" THEN "Invalid BitsPerSample for LogLuv format"
    ELSE "Invalid BitsPerSample for ColorFilterArray format"

\* The first block of the loops over i and j, if any.
loopEntry(g) == IF g.blocksAcross > 0 /\ g.blocksDown > 0
                THEN "decompress" ELSE "done"

BitDepth ==
    /\ pc = "bitDepth"
    /\ IF bitDepthOK(mode, bpp)
       THEN /\ m' = NewRaster(config.Width, config.Height)
            /\ blk' = [i |-> 0, j |-> 0]
            /\ pc' = loopEntry(geo)
            /\ ret' = IF loopEntry(geo) = "done" THEN m' ELSE ret
            /\ UNCHANGED err
       ELSE /\ Fail(FormatError(bitDepthMessage(mode)))
            /\ UNCHANGED <<m, blk>>
    /\ UNCHANGED <<file, api, geo, buf, codec, decompressed, rasterized>>
    /\ UNCHANGED parseVars
    /\ UNCHANGED decoderVars

\* ------------------------------------------------------------------------
\* Codecs
\* ------------------------------------------------------------------------

\* io.NewSectionReader(d.r, offset, n): the bytes the section yields and
\* whether it ends in a clean end of input (the range is inside the file).
sectionBytes(f, off, n) ==
    IF off >= Len(f) THEN <<>>
    ELSE SubSeq(f, off + 1, minInt(off + n, Len(f)))

sectionClean(f, off, n) == ReadAtOK(f, off, n)

int8Alt(b) == IF b > 128 THEN b - 256 ELSE b

\* int(int8(b)).
int8(b) == IF b >= 128 THEN b - 256 ELSE b

RECURSIVE unpackBitsFrom(_, _, _, _)
\* unpackBits from position k (1-based) of src with dst accumulated.
unpackBitsFrom(src, clean, k, dst) ==
    IF k > Len(src)
    THEN IF clean THEN [err |-> NoErr, buf |-> dst]
         ELSE [err |-> IOError, buf |-> <<>>]
    ELSE LET code == int8(src[k])
         IN  IF code >= 0
             THEN IF k + code + 1 > Len(src)
                  THEN [err |-> IOError, buf |-> <<>>]
                  ELSE unpackBitsFrom(src, clean, k + code + 2,
                           dst \o SubSeq(src, k + 1, k + code + 1))
             ELSE IF code = -128
             THEN unpackBitsFrom(src, clean, k + 1, dst)
             ELSE IF k + 1 > Len(src)
                  THEN [err |-> IOError, buf |-> <<>>]
                  ELSE unpackBitsFrom(src, clean, k + 2,
                           dst \o [x \in 1..(1 - code) |-> src[k + 1]])

unpackBitsAlt(src, clean) ==
    [err |-> NoErr, buf |-> unpackBitsFrom(src, clean, 1, <<>>).buf]

\* unpackBits(r) on a reader that yields src and then ends, cleanly or
\* with a read error.
unpackBits(src, clean) == unpackBitsFrom(src, clean, 1, <<>>)

writeLaneAlt(dst, base, stride, n, b) ==
    [x \in 1..Len(dst) |->
        IF x - 1 >= base /\ x - 1 - base < n THEN b[x - base] ELSE dst[x]]

\* dst with the bytes b[1..n] written at the 0-based indices
\* base, base + stride, ...
writeLane(dst, base, stride, n, b) ==
    [x \in 1..Len(dst) |->
        IF /\ x - 1 >= base
           /\ (x - 1 - base) % stride = 0
           /\ (x - 1 - base) \div stride < n
        THEN b[(x - 1 - base) \div stride + 1]
        ELSE dst[x]]

RECURSIVE unRLEFrom(_, _, _, _, _, _, _, _, _, _, _)
\* unRLE's three nested loops from the position (row, channel, offset,
\* nbOfPixels), reading src from position k (1-based).
unRLEFrom(src, clean, bytesPerPixel, blockWidth, blockHeight, row, channel, offset, nbOfPixels, k, dst) ==
    IF row >= blockHeight THEN [err |-> NoErr, buf |-> dst]
    ELSE IF channel >= bytesPerPixel
    THEN unRLEFrom(src, clean, bytesPerPixel, blockWidth, blockHeight,
                   row + 1, 0, 0, blockWidth, k, dst)
    ELSE IF nbOfPixels <= 0
    THEN unRLEFrom(src, clean, bytesPerPixel, blockWidth, blockHeight,
                   row, channel + 1, channel + 1, blockWidth, k, dst)
    ELSE IF k > Len(src) THEN [err |-> IOError, buf |-> dst]
    ELSE
    LET b == src[k]
        rowOffest == row * blockWidth * bytesPerPixel
        base == rowOffest + offset
        isRun == b >= 128
        runLength == IF isRun THEN b - 126 ELSE b
        \* the number of iterations whose write stays inside dst
        room == IF base >= Len(dst) THEN 0
                ELSE (Len(dst) - 1 - base) \div bytesPerPixel + 1
        avail == IF isRun THEN runLength ELSE Len(src) - k
        data == IF isRun THEN [x \in 1..runLength |-> src[k + 1]]
                ELSE SubSeq(src, k + 1, minInt(k + runLength, Len(src)))
    IN  IF isRun /\ k + 1 > Len(src) THEN [err |-> IOError, buf |-> dst]
        ELSE IF avail < runLength /\ avail <= room
        THEN [err |-> IOError,
              buf |-> writeLane(dst, base, bytesPerPixel, avail, data)]
        ELSE IF room < runLength
        THEN [err |-> Panic("index out of range"), buf |-> dst]
        ELSE unRLEFrom(src, clean, bytesPerPixel, blockWidth, blockHeight,
                 row, channel, offset + runLength * bytesPerPixel,
                 nbOfPixels - runLength,
                 IF isRun THEN k + 2 ELSE k + 1 + runLength,
                 writeLane(dst, base, bytesPerPixel, runLength, data))

unRLE(src, clean, md, blockWidth, blockHeight) ==
    LET bytesPerPixel == IF md = "mLogL" THEN 2 ELSE 4
    IN  unRLEFrom(src, clean, bytesPerPixel, blockWidth, blockHeight,
                  0, 0, 0, blockWidth, 1,
                  [x \in 1..(blockWidth * blockHeight * bytesPerPixel) |-> 0])

\* The outcomes of the library codecs (LZW, zlib) on a section: an error,
\* or some decompressed bytes.
MaxExtLen == 2

ExtOutcomes ==
    {[err |-> IOError, buf |-> <<>>]} \cup
    {[err |-> NoErr, buf |-> [x \in 1..n |-> 0]] : n \in 0..MaxExtLen}

\* The outcome r of a codec, with the codec's name.
withCodec(r, name) == [err |-> r.err, buf |-> r.buf, codec |-> name]

\* The uncompressed codec: the n bytes at offset.
rawBlock(f, offset, n) ==
    IF ReadAtOK(f, offset, n)
    THEN [err |-> NoErr, buf |-> ReadAt(f, offset, n)]
    ELSE [err |-> IOError, buf |-> <<>>]

decompressAlt(f, feat, md, offset, n, blockWidth, blockHeight, ext) ==
    LET c == firstVal(feat, tCompression)
    IN  IF c = Word(cNone)
        THEN withCodec(rawBlock(f, offset, n), "none")
        ELSE IF c = Word(cLZW) \/ c = Word(cDeflate)
        THEN withCodec(ext, "lzw")
        ELSE IF c = Word(cDeflateOld)
        THEN withCodec(ext, "deflate")
        ELSE IF c = Word(cPackBits)
        THEN withCodec(unpackBits(sectionBytes(f, offset, n),
                                  sectionClean(f, offset, n)), "packbits")
        ELSE IF c = Word(cSGILogRLE)
        THEN withCodec(unRLE(sectionBytes(f, offset, n),
                             sectionClean(f, offset, n),
                             md, blockWidth, blockHeight), "sgilogrle")
        ELSE [err |-> UnsupportedError("compression value"),
              buf |-> <<>>, codec |-> "unsupported"]

\* decoder.decompress: [err, buf] and the codec the switch chose.
decompress(f, feat, md, offset, n, blockWidth, blockHeight, ext) ==
    LET c == firstVal(feat, tCompression)
    IN  IF c = Word(cNone) \/ c = Word(0)
        THEN withCodec(rawBlock(f, offset, n), "none")
        ELSE IF c = Word(cLZW)
        THEN withCodec(ext, "lzw")
        ELSE IF c = Word(cDeflate) \/ c = Word(cDeflateOld)
        THEN withCodec(ext, "deflate")
        ELSE IF c = Word(cPackBits)
        THEN withCodec(unpackBits(sectionBytes(f, offset, n),
                                  sectionClean(f, offset, n)), "packbits")
        ELSE IF c = Word(cSGILogRLE)
        THEN withCodec(unRLE(sectionBytes(f, offset, n),
                             sectionClean(f, offset, n),
                             md, blockWidth, blockHeight), "sgilogrle")
        ELSE [err |-> UnsupportedError("compression value " \o WordString(c)),
              buf |-> <<>>, codec |-> "unsupported"]

\* ------------------------------------------------------------------------
\* Decode: the loops over the blocks
\* ------------------------------------------------------------------------

\* blkW and blkH of block (i, j): [panic, w, h].
blockSize(g, c, i, j) ==
    LET lastCol == ~g.blockPadding /\ i = g.blocksAcross - 1
        lastRow == ~g.blockPadding /\ j = g.blocksDown - 1
    IN  IF (lastCol /\ g.blockWidth = 0) \/ (lastRow /\ g.blockHeight = 0)
        THEN [panic |-> TRUE, w |-> 0, h |-> 0]
        ELSE [panic |-> FALSE,
              w |-> IF lastCol /\ c.Width % g.blockWidth # 0
                    THEN c.Width % g.blockWidth ELSE g.blockWidth,
              h |-> IF lastRow /\ c.Height % g.blockHeight # 0
                    THEN c.Height % g.blockHeight ELSE g.blockHeight]

blockIndexAlt(g, i, j) == i * g.blocksDown + j + 1

\* The index j*blocksAcross+i into blockOffsets and blockCounts (1-based).
blockIndex(g, i, j) == j * g.blocksAcross + i + 1

\* "d.decompress(offset, n, blkW, blkH)" for the block (blk.i, blk.j).
Decompress ==
    /\ pc = "decompress"
    /\ \E ext \in ExtOutcomes :
        LET sz == blockSize(geo, config, blk.i, blk.j)
            offset == AsInt(geo.blockOffsets[blockIndex(geo, blk.i, blk.j)])
            n == AsInt(geo.blockCounts[blockIndex(geo, blk.i, blk.j)])
            r == decompress(file, features, mode, offset, n, sz.w, sz.h, ext)
        IN  IF sz.panic
            THEN /\ Fail(Panic("integer divide by zero"))
                 /\ UNCHANGED <<buf, codec, decompressed>>
            ELSE /\ decompressed' = Append(decompressed, <<blk.i, blk.j>>)
                 /\ buf' = r.buf
                 /\ codec' = r.codec
                 /\ IF r.err # NoErr
                    THEN Fail(r.err)
                    ELSE /\ pc' = "decode"
                         /\ UNCHANGED <<err, ret>>
    /\ UNCHANGED <<file, api, geo, m, blk, rasterized>>
    /\ UNCHANGED parseVars
    /\ UNCHANGED decoderVars

\* The bytes decode reads for one pixel.
bytesPerPixelOf(md) ==
    IF md = "mRGB" THEN 12 ELSE IF md = "mLogL" THEN 2 ELSE 4

\* bayer.GetPattern: the four 2x2 Bayer layouts are recognized.
cfaPatternOK(val) ==
    val \in {<<Word(0), Word(1), Word(1), Word(2)>>,
             <<Word(2), Word(1), Word(1), Word(0)>>,
             <<Word(1), Word(0), Word(2), Word(1)>>,
             <<Word(1), Word(2), Word(0), Word(1)>>}

\* The bits of the float64 1.0 and 0.0 as 64-bit words.
float64One == <<1072693248, 0>>
float64Zero == <<0, 0>>

\* tag.double(index): the bits of the result.
tagDouble(t, index) ==
    IF Len(t.val) <= index THEN float64Zero ELSE t.val[index + 1]

stonitsAlt(f) == tagDouble(Lookup(f, tStonits), 0)

\* "stonits := d.features[tStonits].double(0); if stonits == 0 { stonits
\* = 1 }": the bits of the multiplier (the model holds no word with the
\* sign bit set, so -0.0 does not occur).
stonits(f) ==
    IF tagDouble(Lookup(f, tStonits), 0) = float64Zero THEN float64One
    ELSE tagDouble(Lookup(f, tStonits), 0)

RECURSIVE gcd(_, _)
gcd(a, b) == IF b = 0 THEN a ELSE gcd(b, a % b)

\* A non-negative float64 held exactly as a fraction in lowest terms:
\* <<1, 0>> is +Inf and <<0, 0>> is NaN.
Frac(a, b) ==
    IF a = 0 /\ b = 0 THEN <<0, 0>>
    ELSE <<a \div gcd(a, b), b \div gcd(a, b)>>

\* x / y in float64, exact on the values the model holds.
fdiv(x, y) == Frac(x[1] * y[2], x[2] * y[1])

\* math.Float64frombits on the patterns of 0.0 and of the powers of two
\* (no other pattern is given to it here).
float64frombits(w) ==
    IF w = float64Zero THEN <<0, 1>>
    ELSE LET e == w[1] \div 1048576
         IN  IF e >= 1023 THEN <<2 ^ (e - 1023), 1>> ELSE <<1, 2 ^ (1023 - e)>>

\* The float64 that asFloat returns, from its result r.
floatOf(r) ==
    IF r.kind = "rat" THEN Frac(r.num, r.denom)
    ELSE IF r.kind = "bits" THEN float64frombits(r.bits)
    ELSE <<r.bits[2], 1>>

\* opts.BlackLevel and opts.WhiteLevel: asFloat(0) of the tag when it
\* exists; the call panics on a rational with a zero denominator or no
\* value.
levelPanics(f, tid) == tid \in DOMAIN f /\ asFloat(f[tid], 0).panic

\* Step 2, white balancing: [err, gains].
whiteBalance(f) ==
    IF tAsShotNeutral \notin DOMAIN f
    THEN [err |-> NoErr, gains |-> <<<<1, 1>>, <<1, 1>>, <<1, 1>>>>]
    ELSE
    LET t == f[tAsShotNeutral]
        n == Len(t.val)
        inv(i) == fdiv(<<1, 1>>, floatOf(asFloat(t, i - 1)))
    IN  IF \E i \in 1..n : asFloat(t, i - 1).panic
        THEN [err |-> Panic("division by zero"), gains |-> <<>>]
        ELSE IF n < 3
        THEN [err |-> Panic("index out of range"), gains |-> <<>>]
        ELSE
        LET wb0 == fdiv(inv(1), inv(2))
            wb1 == fdiv(inv(2), inv(2))
            wb2 == fdiv(inv(3), wb1)
        IN  [err |-> NoErr,
             gains |-> [i \in 1..n |-> IF i = 1 THEN wb0
                                       ELSE IF i = 2 THEN wb1
                                       ELSE IF i = 3 THEN wb2
                                       ELSE inv(i)]]

\* sRGB -> XYZ (D65), in units of 10^-7.
sRGBToXYZ ==
    <<4124564, 3575761, 1804375,
      2126729, 7151522, 721750,
      193339, 1191920, 9503041>>

camToXYZAlt(f) ==
    IF tColorMatrix2 \in DOMAIN f \/ tColorMatrix1 \in DOMAIN f
    THEN [i \in 1..9 |-> 0]
    ELSE sRGBToXYZ

\* Step 4, color space correction: the matrix of the transform.
camToXYZ(f) == sRGBToXYZ

predictorRejectedAlt(f) == WordGT(firstVal(f, tPredictor), prNone + 1)

\* "d.firstVal(tPredictor) > prNone".
predictorRejected(f) == WordGT(firstVal(f, tPredictor), prNone)

\* The pixels of the clipped rectangle in the order of the loops over y
\* and x, as a sequence of <<x, y>>.
rectPixels(xmin, ymin, rMaxX, rMaxY) ==
    LET w == IF rMaxX > xmin THEN rMaxX - xmin ELSE 0
        h == IF rMaxY > ymin THEN rMaxY - ymin ELSE 0
    IN  [k \in 1..(w * h) |-> <<xmin + ((k - 1) % w), ymin + ((k - 1) \div w)>>]

\* decoder.decode on the rectangle: [err, m].  A pixel write is recorded
\* as [blk, off, scale, gains, matrix]: the block, the offset in d.buf it
\* was read at, the bits of the multiplier of its components (1.0 where
\* the mode does not scale) and, on the CFA path, the white balance
\* handed to the demosaicing and the matrix of the transform to XYZ.
decode(f, md, b, dst, bi, bj, xmin, ymin, xmax, ymax) ==
    LET rMaxX == minInt(xmax, dst.w)
        rMaxY == minInt(ymax, dst.h)
        pts == rectPixels(xmin, ymin, rMaxX, rMaxY)
        bytes == bytesPerPixelOf(md)
        \* the number of pixels whose bytes are inside d.buf
        good == IF md = "mColorFilterArray" THEN Len(pts)
                ELSE minInt(Len(pts), Len(b) \div bytes)
        off(k) == IF md = "mColorFilterArray" THEN 0 ELSE (k - 1) * bytes
        scale == IF md \in {"mLogL", "mLogLuv"} THEN stonits(f)
                 ELSE float64One
        cfa == md = "mColorFilterArray"
        written == [dst EXCEPT !.px =
            [pt \in DOMAIN dst.px |->
                IF \E k \in 1..good : pts[k] = pt
                THEN Append(dst.px[pt],
                        [blk |-> <<bi, bj>>,
                         off |-> off(CHOOSE k \in 1..good : pts[k] = pt),
                         scale |-> scale,
                         gains |-> IF cfa THEN whiteBalance(f).gains
                                   ELSE <<>>,
                         matrix |-> IF cfa THEN camToXYZ(f) ELSE <<>>])
                ELSE dst.px[pt]]]
    IN  IF predictorRejected(f)
        THEN [err |-> UnsupportedError("predictor"), m |-> dst]
        ELSE IF cfa /\ ~cfaPatternOK(Lookup(f, tCFAPattern).val)
        THEN [err |-> UnsupportedError("CFA pattern"), m |-> dst]
        ELSE IF cfa /\ (levelPanics(f, tBlackLevel) \/ levelPanics(f, tWhiteLevel))
        THEN [err |-> Panic("division by zero"), m |-> dst]
        ELSE IF cfa /\ whiteBalance(f).err # NoErr
        THEN [err |-> whiteBalance(f).err, m |-> dst]
        ELSE IF good < Len(pts)
        THEN [err |-> Panic("index out of range"), m |-> written]
        ELSE [err |-> NoErr, m |-> written]

\* The block after (i, j) in the loops "for i ... { for j ... }".
nextBlockAlt(g, i, j) ==
    IF i + 1 < g.blocksAcross THEN [i |-> i + 1, j |-> j, more |-> TRUE]
    ELSE IF j + 1 < g.blocksDown THEN [i |-> 0, j |-> j + 1, more |-> TRUE]
    ELSE [i |-> i, j |-> j, more |-> FALSE]

nextBlock(g, i, j) ==
    IF j + 1 < g.blocksDown THEN [i |-> i, j |-> j + 1, more |-> TRUE]
    ELSE IF i + 1 < g.blocksAcross THEN [i |-> i + 1, j |-> 0, more |-> TRUE]
    ELSE [i |-> i, j |-> j, more |-> FALSE]

\* "d.decode(m, xmin, ymin, xmax, ymax)" for the block (blk.i, blk.j), and
\* the step of the loops.
DecodeBlock ==
    /\ pc = "decode"
    /\ LET sz == blockSize(geo, config, blk.i, blk.j)
           xmin == blk.i * geo.blockWidth
           ymin == blk.j * geo.blockHeight
           r == decode(features, mode, buf, m, blk.i, blk.j,
                       xmin, ymin, xmin + sz.w, ymin + sz.h)
           nb == nextBlock(geo, blk.i, blk.j)
       IN  /\ rasterized' = Append(rasterized, <<blk.i, blk.j>>)
           /\ m' = r.m
           /\ IF r.err # NoErr
              THEN /\ Fail(r.err)
                   /\ UNCHANGED blk
              ELSE /\ blk' = [i |-> nb.i, j |-> nb.j]
                   /\ pc' = IF nb.more THEN "decompress" ELSE "done"
                   /\ ret' = IF nb.more THEN ret ELSE m'
                   /\ UNCHANGED err
    /\ UNCHANGED <<file, api, geo, buf, codec, decompressed>>
    /\ UNCHANGED parseVars
    /\ UNCHANGED decoderVars

\* ------------------------------------------------------------------------
\* Input files: an encoder of file descriptions, used to draw the inputs
\* ------------------------------------------------------------------------

\* The n bytes of v in byte order bo.
EncUint(bo, n, v) ==
    LET le == [i \in 1..n |-> (v \div (256 ^ (i - 1))) % 256]
    IN  IF bo = "LE" THEN le ELSE [i \in 1..n |-> le[n + 1 - i]]

\* The bytes of one value of size bytes; an 8-byte value is given as
\* <<first 32-bit word, second 32-bit word>> in file order.
EncVal(bo, size, v) ==
    IF size = 8 THEN EncUint(bo, 4, v[1]) \o EncUint(bo, 4, v[2])
    ELSE EncUint(bo, size, v)

RECURSIVE EncVals(_, _, _)
EncVals(bo, size, vals) ==
    IF Len(vals) = 0 THEN <<>>
    ELSE EncVal(bo, size, Head(vals)) \o EncVals(bo, size, Tail(vals))

\* An entry description: tag, datatype, count field, and the values
\* written (each of size bytes).
Ent(tag, dt, vals) ==
    [tag |-> tag, dt |-> dt, count |-> Len(vals),
     size |-> IF dt < Len(lengths) THEN lengths[dt + 1] ELSE 1,
     vals |-> vals, kind |-> "vals"]

\* An entry whose 4 value bytes are the 32-bit number field (an offset),
\* whatever its datatype and count.
EntRaw(tag, dt, count, field) ==
    [tag |-> tag, dt |-> dt, count |-> count, size |-> 4,
     vals |-> <<field>>, kind |-> "vals"]

\* An entry of 8-byte values, each given as <<first 32-bit word, second
\* 32-bit word>> in file order.
Ent8(tag, dt, vals) ==
    [tag |-> tag, dt |-> dt, count |-> Len(vals), size |-> 8,
     vals |-> vals, kind |-> "vals"]

\* The SubIFDs entry pointing at the IFDs ks of the file description.
EntSubIFDs(ks) ==
    [tag |-> tSubIFDs, dt |-> dtLong, count |-> Len(ks), size |-> 4,
     vals |-> ks, kind |-> "subifds"]

vlen(e) == e.size * Len(e.vals)

RECURSIVE outlineLen(_, _)
\* The bytes of the out-of-line values of the first n entries of ifd.
outlineLen(ifd, n) ==
    IF n = 0 THEN 0
    ELSE outlineLen(ifd, n - 1) + (IF vlen(ifd[n]) > 4 THEN vlen(ifd[n]) ELSE 0)

partLen(ifd) == outlineLen(ifd, Len(ifd)) + 2 + ifdLen * Len(ifd)

RECURSIVE partStart(_, _)
\* The offset of the part (out-of-line values, then entries) of IFD k.
partStart(d, k) ==
    IF k = 1 THEN 8 + Len(d.data)
    ELSE partStart(d, k - 1) + partLen(d.ifds[k - 1])

ifdOffsetOf(d, k) ==
    partStart(d, k) + outlineLen(d.ifds[k], Len(d.ifds[k]))

entryValue(d, e) ==
    IF e.kind = "subifds"
    THEN EncVals(d.order, 4, [i \in 1..Len(e.vals) |-> ifdOffsetOf(d, e.vals[i])])
    ELSE EncVals(d.order, e.size, e.vals)

pad4(b) == b \o [i \in 1..(4 - Len(b)) |-> 0]

entryBytes(d, k, i) ==
    LET e == d.ifds[k][i]
    IN  EncUint(d.order, 2, e.tag) \o EncUint(d.order, 2, e.dt)
        \o EncUint(d.order, 4, e.count)
        \o (IF vlen(e) > 4
            THEN EncUint(d.order, 4,
                     partStart(d, k) + outlineLen(d.ifds[k], i - 1))
            ELSE pad4(entryValue(d, e)))

RECURSIVE outlineBytes(_, _, _)
outlineBytes(d, k, n) ==
    IF n = 0 THEN <<>>
    ELSE outlineBytes(d, k, n - 1)
         \o (IF vlen(d.ifds[k][n]) > 4 THEN entryValue(d, d.ifds[k][n])
             ELSE <<>>)

RECURSIVE entriesBytes(_, _, _)
entriesBytes(d, k, n) ==
    IF n = 0 THEN <<>>
    ELSE entriesBytes(d, k, n - 1) \o entryBytes(d, k, n)

RECURSIVE partsBytes(_, _)
partsBytes(d, n) ==
    IF n = 0 THEN <<>>
    ELSE partsBytes(d, n - 1)
         \o outlineBytes(d, n, Len(d.ifds[n]))
         \o EncUint(d.order, 2, Len(d.ifds[n]))
         \o entriesBytes(d, n, Len(d.ifds[n]))

\* The file of the description d = [order, magic, data, ifds]: header,
\* data, then per IFD its out-of-line values and its entries; IFD 1 is
\* the main IFD.
MkFile(d) ==
    d.magic \o EncUint(d.order, 4, ifdOffsetOf(d, 1)) \o d.data
    \o partsBytes(d, Len(d.ifds))

\* ------------------------------------------------------------------------
\* Image descriptions
\* ------------------------------------------------------------------------

\* The largest image width and height drawn, and the most SubIFDs.
MaxDim == 2
MaxSubs == 2

Orders == {"LE", "BE"}
magicOf(o) == IF o = "LE" THEN leHeader ELSE beHeader

\* An image description.  0 stands for "tag absent" in bpp, pred, comp
\* and rps; -1 in photo and nsft (-2 in nsft: the tag with no value).
P0 == [order |-> "LE", magic |-> leHeader, W |-> 1, H |-> 1, bpp |-> 16,
       photo |-> pLogL, pred |-> 0, comp |-> 0, tiled |-> FALSE,
       rps |-> 0, tw |-> 0, tl |-> 0, dOff |-> 0, dCnt |-> 0,
       offShift |-> 0, cntShift |-> 0, dng |-> FALSE, nsft |-> -1,
       cfa |-> <<0, 1, 1, 2>>, extra |-> <<>>, subs |-> <<>>]

opt(c, e) == IF c THEN <<e>> ELSE <<>>
max0(a) == IF a < 0 THEN 0 ELSE a

hBW(p) == IF p.tiled THEN p.tw ELSE p.W
hBH(p) == IF p.tiled THEN p.tl ELSE IF p.rps > 0 THEN p.rps ELSE p.H
hAcross(p) == IF hBW(p) = 0 THEN (IF p.W = 0 THEN 0 ELSE 1)
              ELSE ceilDiv(p.W, hBW(p))
hDown(p) == IF hBH(p) = 0 THEN (IF p.H = 0 THEN 0 ELSE 1)
            ELSE ceilDiv(p.H, hBH(p))
hBytes(p) == IF p.photo = pRGB THEN 12 ELSE IF p.photo = pLogLuv THEN 4 ELSE 2
hBlk(p) == hBW(p) * hBH(p) * hBytes(p)
hNOff(p) == max0(hAcross(p) * hDown(p) + p.dOff)
hNCnt(p) == max0(hAcross(p) * hDown(p) + p.dCnt)
hOffsets(p) ==
    [k \in 1..hNOff(p) |->
        8 + (k - 1) * hBlk(p) + (IF k = hNOff(p) THEN p.offShift ELSE 0)]
hCounts(p) ==
    [k \in 1..hNCnt(p) |->
        max0(hBlk(p) + (IF k = hNCnt(p) THEN p.cntShift ELSE 0))]
hData(p) ==
    LET n == IF hNOff(p) > hNCnt(p) THEN hNOff(p) ELSE hNCnt(p)
        len == IF n * hBlk(p) > 4 * (Len(p.subs) + 1) THEN n * hBlk(p)
               ELSE 4 * (Len(p.subs) + 1)
    IN  [i \in 1..len |-> i % 100]

\* The entries of the main IFD of p.
mainEntries(p) ==
    opt(p.nsft >= 0, Ent(tNewSubFileType, dtLong, <<p.nsft>>))
    \o opt(p.nsft = -2, Ent(tNewSubFileType, dtLong, <<>>))
    \o <<Ent(tImageWidth, dtShort, <<p.W>>),
         Ent(tImageLength, dtShort, <<p.H>>)>>
    \o opt(p.bpp > 0, Ent(tBitsPerSample, dtShort, <<p.bpp>>))
    \o opt(p.comp > 0, Ent(tCompression, dtLong, <<p.comp>>))
    \o opt(p.photo >= 0, Ent(tPhotometricInterpretation, dtLong, <<p.photo>>))
    \o (IF p.tiled
        THEN <<Ent(tTileWidth, dtShort, <<p.tw>>),
               Ent(tTileLength, dtShort, <<p.tl>>),
               Ent(tTileOffsets, dtShort, hOffsets(p)),
               Ent(tTileByteCounts, dtShort, hCounts(p))>>
        ELSE <<Ent(tStripOffsets, dtShort, hOffsets(p)),
               Ent(tStripByteCounts, dtShort, hCounts(p))>>
             \o opt(p.rps > 0, Ent(tRowsPerStrip, dtShort, <<p.rps>>)))
    \o opt(p.pred > 0, Ent(tPredictor, dtShort, <<p.pred>>))
    \o opt(p.photo = pColorFilterArray,
           Ent(tCFAPattern, dtByte, p.cfa))
    \o opt(p.dng, Ent(tDNGVersion, dtByte, <<1, 4, 0, 0>>))
    \o opt(Len(p.subs) > 0,
           EntSubIFDs([k \in 1..Len(p.subs) |-> k + 1]))
    \o p.extra

\* The entries of SubIFD k, described by s = [nsft, hasW, extra]: a
\* 2 x k LogL image in one strip.
subEntries(s, k) ==
    opt(s.nsft >= 0, Ent(tNewSubFileType, dtLong, <<s.nsft>>))
    \o opt(s.hasW, Ent(tImageWidth, dtShort, <<2>>))
    \o <<Ent(tImageLength, dtShort, <<k>>),
         Ent(tBitsPerSample, dtShort, <<16>>),
         Ent(tPhotometricInterpretation, dtLong, <<pLogL>>),
         Ent(tStripOffsets, dtShort, <<8>>),
         Ent(tStripByteCounts, dtShort, <<4 * k>>)>>
    \o s.extra

FileOf(p) ==
    MkFile([order |-> p.order, magic |-> p.magic, data |-> hData(p),
            ifds |-> <<mainEntries(p)>>
                     \o [k \in 1..Len(p.subs) |-> subEntries(p.subs[k], k)]])

\* ------------------------------------------------------------------------
\* The inputs drawn
\* ------------------------------------------------------------------------

\* Headers: both magics and three 4-byte prefixes that are neither, over
\* bodies written in either order.
FamHeader ==
    {[P0 EXCEPT !.order = o, !.magic = mg] :
        o \in Orders,
        mg \in {leHeader, beHeader, <<73, 73, 0, 42>>, <<77, 77, 42, 0>>,
                <<73, 73, 42, 1>>}}

\* Files that end inside the header or before the first IFD.
RawFiles ==
    {<<>>, <<73, 73, 42, 0>>, <<77, 77, 0, 42, 0, 0, 0>>, <<1, 2, 3, 4, 5>>,
     <<73, 73, 42, 0, 8, 0, 0, 0>>, <<77, 77, 0, 42, 0, 0, 0, 8, 0>>,
     <<0, 0, 0, 0, 0, 0, 0, 0>>}

DatatypeSamples == (0..14) \cup {255, 256, 65535}

\* Counts on both sides of the 4-byte limit, and 2^30.
CountSamples == {0, 1, 2, 5, 1073741824}

\* One entry of a recognized tag with any datatype, a small or a large
\* count and a value field that is a small number or an offset past the
\* end.
FamDatatype ==
    {[P0 EXCEPT !.order = o,
                !.extra = <<EntRaw(tCompression, dt, c, fld)>>] :
        o \in Orders, dt \in DatatypeSamples, c \in CountSamples,
        fld \in {1, 60000}}

SampleFormatValues ==
    {<<1>>, <<2>>, <<3>>, <<2, 1>>, <<3, 3>>, <<>>, <<2, 3, 1>>, <<1, 1, 1>>}

SubDefault == [nsft |-> -1, hasW |-> TRUE, extra |-> <<>>]

\* A SampleFormat entry in the main IFD or in a SubIFD.
FamSampleFormat ==
    {[P0 EXCEPT !.extra = <<Ent(tSampleFormat, dt, v)>>] :
        dt \in {dtByte, dtShort, dtLong, 2}, v \in SampleFormatValues}
    \cup
    {[P0 EXCEPT !.subs = <<[SubDefault EXCEPT
                               !.extra = <<Ent(tSampleFormat, dt, v)>>]>>] :
        dt \in {dtByte, dtShort, dtLong, 2}, v \in SampleFormatValues}

SubSpecs ==
    {[SubDefault EXCEPT !.nsft = n] : n \in {-1, 0, 1}}
    \cup {[SubDefault EXCEPT !.nsft = 0, !.hasW = FALSE]}

RECURSIVE SeqsUpTo(_, _)
\* The sequences over S of length at most n.
SeqsUpTo(S, n) ==
    IF n = 0 THEN {<<>>}
    ELSE SeqsUpTo(S, n - 1)
         \cup {Append(q, x) : q \in {r \in SeqsUpTo(S, n - 1) : Len(r) = n - 1},
                              x \in S}

\* TIFF and DNG files with up to MaxSubs SubIFDs, flagged or not.
FamDNG ==
    {[P0 EXCEPT !.comp = 1, !.dng = dn[1], !.nsft = dn[2], !.subs = ss] :
        dn \in {<<TRUE, -1>>, <<TRUE, 0>>, <<TRUE, 1>>, <<TRUE, -2>>,
                <<FALSE, -1>>, <<FALSE, 0>>},
        ss \in SeqsUpTo(SubSpecs, MaxSubs)}

OffCntDeltas == {<<0, 0>>, <<-1, 0>>, <<0, -1>>, <<1, 1>>, <<-1, -1>>}

\* Strip and tile geometries with the right number of offsets and
\* counts, one too few, or one too many.
FamGeometry ==
    {[P0 EXCEPT !.W = w, !.H = h, !.rps = r, !.dOff = d[1], !.dCnt = d[2]] :
        w \in 0..MaxDim, h \in 0..MaxDim, r \in 0..(MaxDim + 1),
        d \in OffCntDeltas}
    \cup
    {[P0 EXCEPT !.W = w, !.H = h, !.tiled = TRUE, !.tw = a, !.tl = b,
                !.dOff = d[1], !.dCnt = d[2]] :
        w \in 0..MaxDim, h \in 0..MaxDim, a \in 1..MaxDim, b \in 0..MaxDim,
        d \in OffCntDeltas}

\* Every photometric mode with every bit depth and predictor, in one
\* strip or two.
FamMode ==
    {[P0 EXCEPT !.photo = ph, !.bpp = b, !.pred = pr, !.H = h, !.rps = 1,
                !.cfa = cf] :
        ph \in {pRGB, pLogL, pLogLuv, pColorFilterArray},
        b \in {8, 16, 32}, pr \in 0..3, h \in 1..2,
        cf \in {<<0, 1, 1, 2>>, <<0, 0, 0, 0>>}}

PhotometricSamples ==
    {-1, pWhiteIsZero, pBlackIsZero, pRGB, pPaletted, pTransMask, pCMYK,
     pYCbCr, 7, pCIELab, 9, pLogL, pLogLuv, pColorFilterArray}

\* Every photometric value with and without BitsPerSample.
FamPhotometric ==
    {[P0 EXCEPT !.photo = ph, !.bpp = b] :
        ph \in PhotometricSamples, b \in {0, 16, 32}}

\* Two strips under every compression, the second one sound, stored past
\* the end of the file, or too short.
FamBlocks ==
    {[P0 EXCEPT !.H = 2, !.rps = 1, !.comp = c, !.offShift = sh[1],
                !.cntShift = sh[2]] :
        c \in {0, cNone, 2, cLZW, 7, cDeflate, cPackBits, cDeflateOld,
               cSGILogRLE, 65535},
        sh \in {<<0, 0>>, <<60000, 0>>, <<0, -1>>}}

\* The two 32-bit words, in file order, of the 8 bytes of a 64-bit word
\* <<hi32, lo32>> written in the order o.
hWord64(o, w) == IF o = "LE" THEN <<w[2], w[1]>> ELSE w

\* The StoNits entries drawn: none, no value, 0.0, 1.0, 2.0.
hStonits(o) ==
    {<<>>, <<Ent(tStonits, dtDouble, <<>>)>>}
    \cup {<<Ent(tStonits, dtDouble, <<hWord64(o, w)>>)>> :
            w \in {float64Zero, float64One, <<1073741824, 0>>}}

\* Every mode with and without StoNits, in both byte orders.
FamStonits ==
    {[P0 EXCEPT !.order = o, !.magic = magicOf(o), !.photo = ph,
                !.bpp = IF ph = pRGB THEN 32 ELSE 16, !.W = 2, !.extra = e] :
        o \in Orders, ph \in {pRGB, pLogL, pLogLuv, pColorFilterArray},
        e \in UNION {hStonits(x) : x \in Orders}}

\* The values of AsShotNeutral drawn, as <<numerator, denominator>>.
NeutralValues == {<<1, 1>>, <<1, 2>>, <<1, 4>>}

\* The entries of a CFA image drawn: AsShotNeutral absent, with 0..4
\* rationals or with three shorts, alone or with a color matrix or a
\* level.
hNeutral ==
    {<<>>, <<Ent(tAsShotNeutral, dtShort, <<1, 2, 4>>)>>,
     <<Ent8(tAsShotNeutral, dtRational, <<<<1, 1>>, <<1, 0>>, <<1, 1>>>>)>>,
     <<Ent8(tAsShotNeutral, dtRational, <<<<0, 1>>, <<1, 2>>, <<1, 1>>>>)>>}
    \cup {<<Ent8(tAsShotNeutral, dtRational, v)>> :
             v \in SeqsUpTo({<<1, 2>>}, 4)}
    \cup {<<Ent8(tAsShotNeutral, dtRational, <<a, b, c>>)>> :
             a \in NeutralValues, b \in NeutralValues, c \in NeutralValues}

hColor ==
    {<<>>, <<Ent8(tColorMatrix1, dtRational, <<<<1, 1>>>>)>>,
     <<Ent8(tColorMatrix2, dtRational, <<<<1, 1>>>>)>>,
     <<Ent8(tColorMatrix1, dtRational, <<<<1, 1>>>>),
       Ent8(tColorMatrix2, dtRational, <<<<2, 1>>>>)>>,
     <<Ent(tBlackLevel, dtShort, <<1>>)>>,
     <<Ent8(tBlackLevel, dtRational, <<>>)>>,
     <<Ent8(tWhiteLevel, dtRational, <<<<1, 0>>>>)>>}

FamCFA ==
    {[P0 EXCEPT !.order = o, !.magic = magicOf(o),
                !.photo = pColorFilterArray, !.W = 2, !.extra = c \o n] :
        o \in Orders, n \in hNeutral, c \in hColor}

\* SubIFDs lists that name the main IFD, a SubIFD twice, or that lie in
\* a SubIFD and name the main IFD or the SubIFD itself.
FamNested ==
    {[P0 EXCEPT !.comp = 1, !.dng = d, !.extra = <<EntSubIFDs(ks)>>] :
        d \in BOOLEAN, ks \in {<<1>>, <<1, 1>>}}
    \cup
    {[P0 EXCEPT !.comp = 1, !.dng = d,
                !.subs = <<[SubDefault EXCEPT !.extra = <<EntSubIFDs(ks)>>]>>] :
        d \in BOOLEAN, ks \in {<<1>>, <<2>>, <<2, 1>>}}
    \cup
    {[P0 EXCEPT !.comp = 1, !.dng = d, !.subs = <<SubDefault>>,
                !.extra = <<EntSubIFDs(<<2, 1, 2>>)>>] : d \in BOOLEAN}

Inputs ==
    FamHeader \cup FamDatatype \cup FamSampleFormat \cup FamDNG
    \cup FamGeometry \cup FamMode \cup FamPhotometric \cup FamBlocks
    \cup FamStonits \cup FamCFA \cup FamNested

Files == {FileOf(p) : p \in Inputs} \cup RawFiles

\* ------------------------------------------------------------------------
\* The specification
\* ------------------------------------------------------------------------

Init ==
    /\ file \in Files
    /\ api \in {"Decode", "DecodeConfig"}
    /\ pc = "newIDF"
    /\ byteOrder = "none"
    /\ ifdOffset = 0
    /\ format = "TIFF"
    /\ features = EmptyMap
    /\ tree = <<>>
    /\ cur = NoFrame
    /\ config = [Width |-> 0, Height |-> 0]
    /\ mode = "mBilevel"
    /\ bpp = 0
    /\ geo = NoGeo
    /\ m = Nil
    /\ blk = [i |-> 0, j |-> 0]
    /\ buf = <<>>
    /\ err = NoErr
    /\ ret = Nil
    /\ codec = "unset"
    /\ decompressed = <<>>
    /\ rasterized = <<>>

Next ==
    \/ ReadHeader
    \/ OpenIFD
    \/ ParseEntry
    \/ MainIFD
    \/ SubIFDs
    \/ Primary
    \/ NewDecoder
    \/ Geometry
    \/ BitDepth
    \/ Decompress
    \/ DecodeBlock

Spec == Init /\ [][Next]_vars

\* newIDF alone, up to its return.  It is sequential code: each step that
\* can run does run.
NextIDF ==
    \/ ReadHeader
    \/ OpenIFD
    \/ ParseEntry
    \/ MainIFD
    \/ SubIFDs
    \/ Primary

SpecIDF == Init /\ [][NextIDF]_vars /\ WF_vars(NextIDF)

\* ------------------------------------------------------------------------
\* The accessors of a parsed entry
\* ------------------------------------------------------------------------

MaxVals == 2
MaxIndex == 2

\* The StoNits entries drawn: none, integers of each width, and 64-bit
\* values of each of the three 8-byte datatypes.
TagEntries ==
    {<<>>}
    \cup {<<Ent(tStonits, dt, v)>> :
            dt \in {dtByte, dtShort, dtLong},
            v \in SeqsUpTo({0, 1, 255}, MaxVals)}
    \cup {<<Ent8(tStonits, dt, v)>> :
            dt \in {dtRational, dtSRational, dtDouble},
            v \in SeqsUpTo({<<1, 2>>, <<2, 1>>, <<0, 3>>, <<3, 0>>}, MaxVals)}

TagFiles ==
    {FileOf([P0 EXCEPT !.order = o, !.magic = magicOf(o), !.extra = e]) :
        o \in Orders, e \in TagEntries}

Accessors == {"firstVal", "rational", "sRational", "double", "asFloat"}

\* One call of an accessor on the StoNits entry of the parsed file.
accessorResult(a, t, index) ==
    IF a = "firstVal"
    THEN [panic |-> FALSE, kind |-> "uint", num |-> 0, denom |-> 0,
          bits |-> TagFirstVal(t)]
    ELSE IF a = "rational" THEN rational(t, index)
    ELSE IF a = "sRational" THEN sRational(t, index)
    ELSE IF a = "double" THEN double(t, index)
    ELSE asFloat(t, index)

Access ==
    /\ pc = "newDecoder"
    /\ api \in Accessors
    /\ \E index \in 0..MaxIndex :
          LET r == accessorResult(api, Lookup(features, tStonits), index)
          IN  /\ ret' = [accessor |-> api, index |-> index, value |-> r]
              /\ err' = IF r.panic THEN Panic("division by zero") ELSE NoErr
    /\ pc' = "done"
    /\ UNCHANGED <<file, api>>
    /\ UNCHANGED parseVars
    /\ UNCHANGED decoderVars
    /\ UNCHANGED loopVars

InitTag ==
    /\ file \in TagFiles
    /\ api \in Accessors
    /\ pc = "newIDF"
    /\ byteOrder = "none"
    /\ ifdOffset = 0
    /\ format = "TIFF"
    /\ features = EmptyMap
    /\ tree = <<>>
    /\ cur = NoFrame
    /\ config = [Width |-> 0, Height |-> 0]
    /\ mode = "mBilevel"
    /\ bpp = 0
    /\ geo = NoGeo
    /\ m = Nil
    /\ blk = [i |-> 0, j |-> 0]
    /\ buf = <<>>
    /\ err = NoErr
    /\ ret = Nil
    /\ codec = "unset"
    /\ decompressed = <<>>
    /\ rasterized = <<>>

NextTag ==
    \/ ReadHeader
    \/ OpenIFD
    \/ ParseEntry
    \/ MainIFD
    \/ SubIFDs
    \/ Primary
    \/ Access

SpecTag == InitTag /\ [][NextTag]_vars

\* ------------------------------------------------------------------------
\* unpackBits on its own
\* ------------------------------------------------------------------------

MaxPackLen == 4

\* Control bytes of each kind (0, 2: literals; 127: a literal run longer
\* than any input; 128: no-op; 129, 254: repeats) and data bytes.
PackBytes == {0, 2, 65, 66, 67, 127, 128, 129, 254}

PackInputs == SeqsUpTo(PackBytes, MaxPackLen)

\* unpackBits(bytes.NewReader(file)).
UnpackBits ==
    /\ pc = "unpackBits"
    /\ LET r == unpackBits(file, TRUE)
       IN  /\ buf' = r.buf
           /\ err' = r.err
    /\ codec' = "packbits"
    /\ pc' = "done"
    /\ UNCHANGED <<file, api, ret, geo, m, blk, decompressed, rasterized>>
    /\ UNCHANGED parseVars
    /\ UNCHANGED decoderVars

InitPack ==
    /\ file \in PackInputs
    /\ api = "unpackBits"
    /\ pc = "unpackBits"
    /\ byteOrder = "none"
    /\ ifdOffset = 0
    /\ format = "TIFF"
    /\ features = EmptyMap
    /\ tree = <<>>
    /\ cur = NoFrame
    /\ config = [Width |-> 0, Height |-> 0]
    /\ mode = "mBilevel"
    /\ bpp = 0
    /\ geo = NoGeo
    /\ m = Nil
    /\ blk = [i |-> 0, j |-> 0]
    /\ buf = <<>>
    /\ err = NoErr
    /\ ret = Nil
    /\ codec = "unset"
    /\ decompressed = <<>>
    /\ rasterized = <<>>

NextPack == UnpackBits

SpecPack == InitPack /\ [][NextPack]_vars

\* ------------------------------------------------------------------------
\* unRLE on its own
\* ------------------------------------------------------------------------

MaxCodes == 4

\* The codes drawn: an empty literal, literals of 1 and 2 bytes, runs of
\* 2 and 3, and a literal cut short.
RLECodes ==
    {<<0>>, <<1, 65>>, <<2, 65, 66>>, <<128, 67>>, <<129, 68>>, <<1>>}

RECURSIVE Concat(_)
Concat(q) == IF Len(q) = 0 THEN <<>> ELSE Head(q) \o Concat(Tail(q))

RLEInputs == {Concat(q) : q \in SeqsUpTo(RLECodes, MaxCodes)}

RLEWidths == {0, 1, 2}
RLEHeights == {0, 1, 2}

\* unRLE(bytes.NewReader(file), mode, blockWidth, blockHeight).
UnRLE ==
    /\ pc = "unRLE"
    /\ LET r == unRLE(file, TRUE, mode, geo.blockWidth, geo.blockHeight)
       IN  /\ buf' = r.buf
           /\ err' = r.err
    /\ codec' = "sgilogrle"
    /\ pc' = "done"
    /\ UNCHANGED <<file, api, ret, geo, m, blk, decompressed, rasterized>>
    /\ UNCHANGED parseVars
    /\ UNCHANGED decoderVars

InitRLE ==
    /\ file \in RLEInputs
    /\ api = "unRLE"
    /\ pc = "unRLE"
    /\ byteOrder = "none"
    /\ ifdOffset = 0
    /\ format = "TIFF"
    /\ features = EmptyMap
    /\ tree = <<>>
    /\ cur = NoFrame
    /\ config = [Width |-> 0, Height |-> 0]
    /\ mode \in {"mLogL", "mLogLuv"}
    /\ bpp = 0
    /\ \E w \in RLEWidths, h \in RLEHeights :
          geo = [NoGeo EXCEPT !.blockWidth = w, !.blockHeight = h]
    /\ m = Nil
    /\ blk = [i |-> 0, j |-> 0]
    /\ buf = <<>>
    /\ err = NoErr
    /\ ret = Nil
    /\ codec = "unset"
    /\ decompressed = <<>>
    /\ rasterized = <<>>

NextRLE == UnRLE

SpecRLE == InitRLE /\ [][NextRLE]_vars

\* ------------------------------------------------------------------------
\* Properties
\* ------------------------------------------------------------------------

\* The offsets array or the byte-counts array of g has fewer entries than
\* blocksAcross x blocksDown.
ShortArrays(g) ==
    \/ Len(g.blockOffsets) < g.blocksAcross * g.blocksDown
    \/ Len(g.blockCounts) < g.blocksAcross * g.blocksDown

\* C1: in Decode, for strips and for tiles, when the offsets or the byte
\* counts of the feature map are fewer than blocksAcross x blocksDown,
\* the geometry check ends the call with a FormatError and no image, with
\* no raster allocated and no block decompressed or read.
C1_GeometryCheck ==
    [][(pc = "geometry" /\ ShortArrays(blockGeometry(features, config)))
        => /\ pc' = "done"
           /\ err' = FormatError("inconsistent header")
           /\ ret' = Nil
           /\ m' = Nil
           /\ decompressed' = <<>>
           /\ rasterized' = <<>>]_vars

\* A tiled image with enough offsets and too few byte counts was refused.
C1_Witness ==
    /\ pc = "done"
    /\ api = "Decode"
    /\ err = FormatError("inconsistent header")
    /\ geo.blockPadding
    /\ geo.blocksAcross * geo.blocksDown > 1
    /\ Len(geo.blockOffsets) = geo.blocksAcross * geo.blocksDown
    /\ Len(geo.blockCounts) < geo.blocksAcross * geo.blocksDown
    /\ decompressed = <<>>

\* The first Predictor value of the feature map is greater than 1.
PredictorAboveOne ==
    /\ tPredictor \in DOMAIN features
    /\ Len(features[tPredictor].val) > 0
    /\ \/ features[tPredictor].val[1][1] > 0
       \/ features[tPredictor].val[1][2] > 1

\* No pixel of the raster r has been set.
NoPixelSet(r) == r # Nil /\ \A pt \in DOMAIN r.px : r.px[pt] = <<>>

\* C2: in every mode, when the Predictor value is greater than 1, the
\* rasterization of a block fails with an unsupported-feature error and
\* no pixel of the raster has been set.
C2_PredictorRejected ==
    [][(pc = "decode" /\ PredictorAboveOne)
        => /\ pc' = "done"
           /\ err' = UnsupportedError("predictor")
           /\ ret' = Nil
           /\ NoPixelSet(m')]_vars

\* A block of a two-strip RGB image with Predictor 2 was refused.
C2_Witness ==
    /\ pc = "done"
    /\ mode = "mRGB"
    /\ firstVal(features, tPredictor) = Word(2)
    /\ err = UnsupportedError("predictor")
    /\ rasterized = <<<<0, 0>>>>
    /\ geo.blocksDown = 2
    /\ NoPixelSet(m)

\* C3: a step is taken only while no error has occurred, and a step that
\* ends in an error (in parsing, the geometry check, the bit-depth check,
\* decompression or rasterization) ends the call with a nil image: the
\* failed block is not retried and no later block is handled.
C3_AbortOnError ==
    [][/\ err = NoErr
       /\ err' # NoErr => (pc' = "done" /\ ret' = Nil)]_vars

\* The first of two blocks failed after the raster was allocated: the
\* call ended with no image and the second block untouched.
C3_Witness ==
    /\ pc = "done"
    /\ err # NoErr
    /\ ret = Nil
    /\ m # Nil
    /\ geo.blocksAcross * geo.blocksDown = 2
    /\ Len(decompressed) = 1

\* The IFD carries NewSubFileType with first value PrimaryImage.
Flagged(ifd) ==
    /\ tNewSubFileType \in DOMAIN ifd
    /\ Len(ifd[tNewSubFileType].val) > 0
    /\ ifd[tNewSubFileType].val[1] = <<0, sftPrimaryImage>>

\* The first flagged slot of the tree, in tree order.
FirstFlagged ==
    CHOOSE k \in 1..Len(tree) :
        Flagged(tree[k]) /\ \A j \in 1..(k - 1) : ~Flagged(tree[j])

\* Parsing has just ended on a DNG file with a flagged IFD.
ParsedDNG ==
    /\ pc = "newDecoder"
    /\ tDNGVersion \in DOMAIN tree[1]
    /\ \E k \in 1..Len(tree) : Flagged(tree[k])

\* C4: after parsing a DNG file whose main IFD is not flagged primary and
\* one of whose SubIFDs is, ImageWidth and ImageLength of the feature map
\* are those the first flagged SubIFD carries.
C4_PrimaryOverride ==
    (ParsedDNG /\ ~Flagged(tree[1]))
    => \A t \in {tImageWidth, tImageLength} :
          t \in DOMAIN tree[FirstFlagged]
          => /\ t \in DOMAIN features
             /\ features[t] = tree[FirstFlagged][t]

\* Two SubIFDs are flagged and differ in ImageLength from each other and
\* from the main IFD: the feature map has the first one's.
C4_Witness ==
    /\ ParsedDNG
    /\ Len(tree) = 3
    /\ ~Flagged(tree[1]) /\ Flagged(tree[2]) /\ Flagged(tree[3])
    /\ {tImageWidth, tImageLength} \subseteq DOMAIN tree[2]
    /\ tImageLength \in DOMAIN tree[3]
    /\ tree[2][tImageLength] # tree[3][tImageLength]
    /\ tree[2][tImageWidth] # tree[1][tImageWidth]
    /\ features[tImageLength] = tree[2][tImageLength]
    /\ features[tImageWidth] = tree[2][tImageWidth]

\* C5 (as stated): after parsing a DNG file whose first flagged IFD is
\* slot k, the feature map is exactly the tag map of slot k.
C5_EntireOverwrite ==
    ParsedDNG => features = tree[FirstFlagged]

\* C5 (amended): the tags of the first flagged IFD are put over the main
\* IFD's: every tag of slot k has slot k's entry, every tag only the main
\* IFD has keeps the main IFD's entry, and there is no other tag.
C5_Overlay ==
    ParsedDNG
    => /\ DOMAIN features = (DOMAIN tree[1]) \cup (DOMAIN tree[FirstFlagged])
       /\ \A t \in DOMAIN tree[FirstFlagged] :
             features[t] = tree[FirstFlagged][t]
       /\ \A t \in (DOMAIN tree[1]) \ (DOMAIN tree[FirstFlagged]) :
             features[t] = tree[1][t]

\* A flagged SubIFD gave its dimensions while DNGVersion and SubIFDs,
\* which only the main IFD has, stayed in the feature map.
C5_Witness ==
    /\ ParsedDNG
    /\ FirstFlagged = 2
    /\ tImageWidth \in DOMAIN tree[2]
    /\ tree[2][tImageWidth] # tree[1][tImageWidth]
    /\ features[tImageWidth] = tree[2][tImageWidth]
    /\ {tDNGVersion, tSubIFDs} \subseteq (DOMAIN features) \ (DOMAIN tree[2])

\* The IFD entry parseIFD is at.
CurEntry == SubSeq(cur.p, cur.i + 1, cur.i + ifdLen)

\* The value of the entry e, if it is stored out of line, lies inside
\* the file.
ValueInFile(e) ==
    LET dt == entryDatatype(byteOrder, e)
        count == entryCount(byteOrder, e)
    IN  \/ dt >= Len(lengths)
        \/ ~isPointer(dt, count)
        \/ pointerReadOK(file, entryOffset(byteOrder, e), datalenOf(dt, count))

\* C6 (as stated): for an entry of a recognized tag whose datatype field
\* is any value of 0..65535 other than byte, short, long, rational,
\* signed rational and double, parsing ends with an unsupported-feature
\* error and the entry is not stored.
C6_UnsupportedDatatype ==
    [][(/\ pc = "parseIFD"
        /\ entryTag(byteOrder, CurEntry) \in RecognizedTags
        /\ entryDatatype(byteOrder, CurEntry) \notin {1, 3, 4, 5, 10, 12}
        /\ ValueInFile(CurEntry))
        => /\ pc' = "done"
           /\ err' = UnsupportedError("data type")
           /\ tree' = tree]_vars

\* The bit depths the check accepts for mode md: 32 for RGB, 16 for LogL,
\* LogLuv and CFA.
DepthAccepted(md, v) ==
    \/ md = "mRGB" /\ v = <<0, 32>>
    \/ md \in {"mLogL", "mLogLuv", "mColorFilterArray"} /\ v = <<0, 16>>

\* The bit depths of the claim as stated: also 8 for CFA.
DepthAcceptedAsStated(md, v) ==
    \/ DepthAccepted(md, v)
    \/ md = "mColorFilterArray" /\ v = <<0, 8>>

\* The bit-depth check passes exactly when ok: it allocates the raster
\* and goes on, or ends the call with a FormatError and no image.
BitDepthStep(ok) ==
    pc = "bitDepth"
    => IF ok
       THEN /\ err' = NoErr
            /\ m' # Nil
            /\ pc' \in {"decompress", "done"}
            /\ pc' = "done" => ret' = m'
       ELSE /\ pc' = "done"
            /\ err'.kind = "format"
            /\ ret' = Nil
            /\ m' = Nil

\* C7 (as stated): the bit-depth check passes exactly for 32 with RGB, 16
\* with LogL, 16 with LogLuv and 8 or 16 with CFA.
C7_BitDepthAsStated ==
    [][BitDepthStep(DepthAcceptedAsStated(
           mode, firstVal(features, tBitsPerSample)))]_vars

\* C7 (amended): the bit-depth check passes exactly for 32 with RGB and
\* 16 with LogL, LogLuv and CFA; every other pair ends Decode with a
\* FormatError and no image.
C7_BitDepth ==
    [][BitDepthStep(DepthAccepted(
           mode, firstVal(features, tBitsPerSample)))]_vars

\* A CFA image of bit depth 8 was refused.
C7_Witness ==
    /\ pc = "done"
    /\ mode = "mColorFilterArray"
    /\ firstVal(features, tBitsPerSample) = <<0, 8>>
    /\ err = FormatError("Invalid BitsPerSample for ColorFilterArray format")
    /\ ret = Nil

\* The first PhotometricInterpretation value, 0 when the tag is absent,
\* is one of WhiteIsZero, BlackIsZero, Paletted, TransMask, CMYK, YCbCr
\* and CIELab.
PhotometricLDR ==
    LET v == Lookup(features, tPhotometricInterpretation).val
        ph == IF Len(v) = 0 THEN <<0, 0>> ELSE v[1]
    IN  ph \in {<<0, x>> : x \in {0, 1, 3, 4, 5, 6, 8}}

\* C8 (as stated): for every LDR photometric value, and when the tag is
\* absent, newDecoder fails with an UnsupportedError and no raster.
C8_LDRRejectedAsStated ==
    [][(pc = "newDecoder" /\ PhotometricLDR)
        => /\ pc' = "done"
           /\ err'.kind = "unsupported"
           /\ ret' = Nil
           /\ m' = Nil]_vars

\* C8 (amended): for every LDR photometric value, and when the tag is
\* absent, newDecoder fails and no raster is allocated, in Decode and in
\* DecodeConfig: with an UnsupportedError when BitsPerSample is present,
\* with FormatError("BitsPerSample tag missing") when it is not.
C8_LDRRejected ==
    [][(pc = "newDecoder" /\ PhotometricLDR)
        => /\ pc' = "done"
           /\ ret' = Nil
           /\ m' = Nil
           /\ IF tBitsPerSample \in DOMAIN features
              THEN err'.kind = "unsupported"
              ELSE err' = FormatError("BitsPerSample tag missing")]_vars

\* DecodeConfig refused a CIELab image that has BitsPerSample.
C8_Witness ==
    /\ pc = "done"
    /\ api = "DecodeConfig"
    /\ tBitsPerSample \in DOMAIN features
    /\ firstVal(features, tPhotometricInterpretation) = <<0, 8>>
    /\ err.kind = "unsupported"
    /\ ret = Nil

Ord16(o, b) == IF o = "LE" THEN b[1] + 256 * b[2] ELSE 256 * b[1] + b[2]
Ord32(o, b) ==
    IF o = "LE" THEN b[1] + 256 * (b[2] + 256 * (b[3] + 256 * b[4]))
    ELSE b[4] + 256 * (b[3] + 256 * (b[2] + 256 * b[1]))

\* The byte order a 4-byte prefix announces.
OrderOfMagic(h) ==
    IF h = <<73, 73, 42, 0>> THEN "LE"
    ELSE IF h = <<77, 77, 0, 42>> THEN "BE" ELSE "none"

\* C10: when the 8 header bytes are read, a little-endian or big-endian
\* magic sets the byte order and the first IFD offset is bytes 4-7 in
\* that order; any other prefix fails with FormatError("malformed
\* header") before any IFD is read; the order never changes afterwards
\* and the entry count and the tag ids of an IFD are read in it.
C10_Header ==
    [][/\ (pc = "newIDF" /\ Len(file) >= 8)
          => IF OrderOfMagic(SubSeq(file, 1, 4)) = "none"
             THEN /\ pc' = "done"
                  /\ err' = FormatError("malformed header")
                  /\ ret' = Nil
                  /\ tree' = <<>>
             ELSE /\ pc' = "openIFD"
                  /\ byteOrder' = OrderOfMagic(SubSeq(file, 1, 4))
                  /\ ifdOffset' = Ord32(byteOrder', SubSeq(file, 5, 8))
       /\ pc # "newIDF" => byteOrder' = byteOrder
       /\ (pc = "openIFD" /\ pc' = "parseIFD")
          => Len(cur'.p) =
               12 * Ord16(byteOrder, SubSeq(file, ifdOffset + 1, ifdOffset + 2))
       /\ (pc = "parseIFD" /\ tree' # tree)
          => Ord16(byteOrder, SubSeq(CurEntry, 1, 2))
               \in DOMAIN tree'[cur.fi + 1]]_vars

\* A big-endian file whose first IFD offset reads differently in the two
\* orders is being parsed at that offset.
C10_Witness ==
    /\ pc = "parseIFD"
    /\ SubSeq(file, 1, 4) = <<77, 77, 0, 42>>
    /\ byteOrder = "BE"
    /\ ifdOffset = Ord32("BE", SubSeq(file, 5, 8))
    /\ ifdOffset # Ord32("LE", SubSeq(file, 5, 8))
    /\ Len(cur.p) > 0

\* The first Compression value of the feature map, 0 when the tag is
\* absent or empty.
CompressionWord ==
    LET v == Lookup(features, tCompression).val
    IN  IF Len(v) = 0 THEN <<0, 0>> ELSE v[1]

\* The codec the compression value n selects.
CodecOfId(n) ==
    IF n \in {0, 1} THEN "none"
    ELSE IF n = 5 THEN "lzw"
    ELSE IF n \in {8, 32946} THEN "deflate"
    ELSE IF n = 32773 THEN "packbits"
    ELSE IF n = 34676 THEN "sgilogrle"
    ELSE "unsupported"

\* C11: decompress chooses the codec by the first Compression value: 0
\* (tag absent) and 1 the uncompressed codec, whose buffer is the bytes of
\* the block's range whichever of the two it is; 5 LZW; 8 and 32946
\* deflate; 32773 PackBits; 34676 SGI Log RLE; any other value fails with
\* an UnsupportedError whose message holds the number.
C11_CompressionDispatch ==
    [][pc = "decompress"
        => LET c == CompressionWord
               k == blockIndex(geo, blk.i, blk.j)
               off == AsInt(geo.blockOffsets[k])
               n == AsInt(geo.blockCounts[k])
           IN  /\ codec' = IF c[1] = 0 THEN CodecOfId(c[2]) ELSE "unsupported"
               /\ codec' = "none"
                  => IF off + n <= Len(file)
                     THEN /\ err' = NoErr
                          /\ buf' = SubSeq(file, off + 1, off + n)
                     ELSE err'.kind = "io" /\ ret' = Nil
               /\ codec' = "unsupported"
                  => /\ pc' = "done"
                     /\ err'.kind = "unsupported"
                     /\ ret' = Nil
                     /\ c[1] = 0
                        => err'.msg = "compression value " \o ToString(c[2])]_vars

\* A block of an image with Compression 7 was refused with the number in
\* the message.
C11_Witness ==
    /\ pc = "done"
    /\ CompressionWord = <<0, 7>>
    /\ codec = "unsupported"
    /\ err = UnsupportedError("compression value 7")
    /\ Len(decompressed) = 1

\* The multiplier the StoNits entry of the feature map stands for: 1.0
\* when the tag is absent, has no value or is 0.0, else its first value.
StonitsMultiplier ==
    IF tStonits \notin DOMAIN features THEN <<1072693248, 0>>
    ELSE IF features[tStonits].val = <<>> THEN <<1072693248, 0>>
    ELSE IF features[tStonits].val[1] = <<0, 0>> THEN <<1072693248, 0>>
    ELSE features[tStonits].val[1]

\* The pixel writes the step adds to the raster.
NewWrites ==
    {m'.px[pt][Len(m'.px[pt])] :
        pt \in {q \in DOMAIN m'.px : Len(m'.px[q]) > Len(m.px[q])}}

\* C12: in the LogL and LogLuv modes every pixel a block writes is scaled
\* by the StoNits double, an absent, empty or zero StoNits standing for
\* 1.0: without the tag the pixels are those of StoNits = 1.0.
C12_StonitsDefault ==
    [][(pc = "decode" /\ mode \in {"mLogL", "mLogLuv"})
        => \A w \in NewWrites : w.scale = StonitsMultiplier]_vars

\* A LogLuv block of a big-endian file with StoNits 0.0 was written with
\* the multiplier 1.0.
C12_Witness ==
    /\ pc = "done"
    /\ err = NoErr
    /\ mode = "mLogLuv"
    /\ byteOrder = "BE"
    /\ m # Nil
    /\ tStonits \in DOMAIN features
    /\ features[tStonits].val = <<<<0, 0>>>>
    /\ \A pt \in DOMAIN m.px :
          Len(m.px[pt]) = 1 /\ m.px[pt][1].scale = <<1072693248, 0>>
    /\ m.w = 2

\* Block a comes before block b in row-major order (across, then down);
\* a block is <<column i, row j>>.
RowMajorBefore(a, b) == a[2] < b[2] \/ (a[2] = b[2] /\ a[1] < b[1])

\* Each block is rasterized before the next one is decompressed.
Alternating ==
    /\ Len(rasterized) <= Len(decompressed)
    /\ Len(decompressed) <= Len(rasterized) + 1
    /\ rasterized = SubSeq(decompressed, 1, Len(rasterized))

\* C13 (as stated): the blocks are decompressed and rasterized in
\* row-major order, each rasterized before the next is decompressed.
C13_RowMajorOrder ==
    /\ Alternating
    /\ \A a, b \in 1..Len(decompressed) :
          a < b => RowMajorBefore(decompressed[a], decompressed[b])

\* C13 (amended): the blocks are handled in column-major order (down,
\* then across): the k-th block handled is row (k-1) mod blocksDown of
\* column (k-1) div blocksDown, and each block is rasterized before the
\* next is decompressed.
C13_ColumnMajorOrder ==
    /\ Alternating
    /\ \A k \in 1..Len(decompressed) :
          decompressed[k] = <<(k - 1) \div geo.blocksDown,
                              (k - 1) % geo.blocksDown>>

\* A grid of two columns and two rows was decoded: the block of column 0,
\* row 1 came second.
C13_Witness ==
    /\ pc = "done"
    /\ err = NoErr
    /\ geo.blocksAcross = 2 /\ geo.blocksDown = 2
    /\ rasterized = <<<<0, 0>>, <<0, 1>>, <<1, 0>>, <<1, 1>>>>
    /\ decompressed = rasterized


\* The StoNits entry as it lies in the main IFD of the file, and its
\* fields read in the byte order the header announces.
StoredEntry ==
    LET k == CHOOSE k \in 0..(Len(cur.p) \div 12 - 1) :
                 Ord16(byteOrder, SubSeq(cur.p, 12 * k + 1, 12 * k + 2)) = 37439
    IN  SubSeq(cur.p, 12 * k + 1, 12 * k + 12)
StoredType == Ord16(byteOrder, SubSeq(StoredEntry, 3, 4))
StoredCount == Ord32(byteOrder, SubSeq(StoredEntry, 5, 8))
StoredSize == IF StoredType = 1 THEN 1 ELSE IF StoredType = 3 THEN 2
              ELSE IF StoredType = 4 THEN 4 ELSE 8
StoredBytes ==
    IF StoredSize * StoredCount <= 4 THEN SubSeq(StoredEntry, 9, 12)
    ELSE LET off == Ord32(byteOrder, SubSeq(StoredEntry, 9, 12))
         IN  SubSeq(file, off + 1, off + StoredSize * StoredCount)
\* The k-th stored 32-bit word and the i-th stored integer, from 0.
StoredWord32(k) == Ord32(byteOrder, SubSeq(StoredBytes, 4 * k + 1, 4 * k + 4))
StoredInt(i) ==
    IF StoredSize = 1 THEN StoredBytes[i + 1]
    ELSE IF StoredSize = 2
    THEN Ord16(byteOrder, SubSeq(StoredBytes, 2 * i + 1, 2 * i + 2))
    ELSE StoredWord32(i)
\* The i-th stored 64-bit pattern as <<high half, low half>>.
StoredPattern(i) ==
    IF byteOrder = "LE" THEN <<StoredWord32(2 * i + 1), StoredWord32(2 * i)>>
    ELSE <<StoredWord32(2 * i), StoredWord32(2 * i + 1)>>

\* An accessor returned for an index inside the parsed StoNits entry.
Accessed(a, types) ==
    /\ pc = "done"
    /\ err = NoErr
    /\ "accessor" \in DOMAIN ret
    /\ ret.accessor = a
    /\ tStonits \in DOMAIN features
    /\ StoredType \in types
    /\ ret.index < StoredCount

\* C14: in little-endian and in big-endian files alike, the matching
\* accessor of a parsed entry gives what was stored: firstVal the first
\* stored integer, rational(i) and sRational(i) the first 32-bit word of
\* the i-th stored pair as numerator and the second as denominator,
\* double(i) the stored 64-bit pattern.
C14_RoundTrip ==
    /\ Accessed("firstVal", {1, 3, 4}) => ret.value.bits = <<0, StoredInt(0)>>
    /\ Accessed("rational", {5})
          => /\ ret.value.num = StoredWord32(2 * ret.index)
             /\ ret.value.denom = StoredWord32(2 * ret.index + 1)
    /\ Accessed("sRational", {10})
          => /\ ret.value.num = StoredWord32(2 * ret.index)
             /\ ret.value.denom = StoredWord32(2 * ret.index + 1)
    /\ Accessed("double", {12}) => ret.value.bits = StoredPattern(ret.index)

\* The same for files in little-endian order only.
C14_RoundTripLE == byteOrder = "LE" => C14_RoundTrip

\* The entry parseIFD is at holds a recognized tag and a datatype of
\* the table of lengths.
TableEntry ==
    /\ pc = "parseIFD"
    /\ Ord16(byteOrder, SubSeq(CurEntry, 1, 2)) \in RecognizedTags
    /\ Ord16(byteOrder, SubSeq(CurEntry, 3, 4)) \in 0..12

\* The product of the entry's unit length and its count is at most 4,
\* as a product of integers.
ProductAtMost4 ==
    LET L == lengths[Ord16(byteOrder, SubSeq(CurEntry, 3, 4)) + 1]
    IN  L = 0 \/ Ord32(byteOrder, SubSeq(CurEntry, 5, 8)) <= 4 \div L

\* That many bytes lie in the file at the offset of the entry.
ProductInFile ==
    LET L == lengths[Ord16(byteOrder, SubSeq(CurEntry, 3, 4)) + 1]
        off == Ord32(byteOrder, SubSeq(CurEntry, 9, 12))
    IN  /\ off <= Len(file)
        /\ Ord32(byteOrder, SubSeq(CurEntry, 5, 8)) <= (Len(file) - off) \div L

\* The bytes stored for the byte-typed entry parseIFD is at are those of
\* the sequence b from position k + 1 on.
StoredBytesFrom(b, k) ==
    LET tid == Ord16(byteOrder, SubSeq(CurEntry, 1, 2))
        n == Ord32(byteOrder, SubSeq(CurEntry, 5, 8))
        t == tree'[cur.fi + 1][tid]
    IN  /\ Len(t.val) = n
        /\ \A i \in 1..n : t.val[i] = <<0, b[k + i]>>

\* C15: for an entry of a recognized tag with a datatype of 0..12 and any
\* count, no read of the source happens when unit length x count, as a
\* product of integers, is at most 4 (a byte-typed value is then the
\* entry's own value bytes); otherwise that many bytes are read at the
\* entry's offset: the parse ends with the read error when they are not
\* in the file, and a byte-typed value is those bytes when they are.
C15_InlineOrPointer ==
    [][TableEntry =>
         IF ProductAtMost4
         THEN /\ err'.kind # "io"
              /\ Ord16(byteOrder, SubSeq(CurEntry, 3, 4)) = 1
                    => StoredBytesFrom(CurEntry, 8)
         ELSE IF ~ProductInFile
         THEN pc' = "done" /\ err' = IOError
         ELSE /\ err'.kind \notin {"io", "panic"}
              /\ Ord16(byteOrder, SubSeq(CurEntry, 3, 4)) = 1
                    => StoredBytesFrom(file,
                          Ord32(byteOrder, SubSeq(CurEntry, 9, 12)))]_vars

\* The same for counts whose product with the unit length fits 32 bits.
C15_InlineOrPointerNoWrap ==
    [][(TableEntry /\ Ord32(byteOrder, SubSeq(CurEntry, 5, 8)) < 65536)
         => IF ProductAtMost4
            THEN /\ err'.kind # "io"
                 /\ Ord16(byteOrder, SubSeq(CurEntry, 3, 4)) = 1
                       => StoredBytesFrom(CurEntry, 8)
            ELSE IF ~ProductInFile
            THEN pc' = "done" /\ err' = IOError
            ELSE /\ err'.kind \notin {"io", "panic"}
                 /\ Ord16(byteOrder, SubSeq(CurEntry, 3, 4)) = 1
                       => StoredBytesFrom(file,
                             Ord32(byteOrder, SubSeq(CurEntry, 9, 12)))]_vars

\* An accessor of the set A was called on the parsed StoNits entry (or
\* on the zero tag when the file has none) with an index at or past the
\* number of its values.
OutOfRange(A) ==
    /\ pc = "done"
    /\ "accessor" \in DOMAIN ret
    /\ ret.accessor \in A
    /\ ret.index >= Len(Lookup(features, tStonits).val)

\* C16: rational(i) and sRational(i) with i at or past the number of
\* stored words, an absent or empty entry included, return normally with
\* the value 0/0, and so does asFloat(i) on such an entry of a rational
\* datatype.
C16_OutOfRangeReturns ==
    /\ OutOfRange({"rational", "sRational"})
          => /\ err = NoErr
             /\ ret.value.num = 0
             /\ ret.value.denom = 0
    /\ (/\ OutOfRange({"asFloat"})
        /\ Lookup(features, tStonits).datatype \in {5, 10})
          => err = NoErr

\* The AsShotNeutral entry as it lies in the main IFD of the file: three
\* rationals stored out of line, none with a zero word.
NeutralEntry ==
    LET k == CHOOSE k \in 0..(Len(cur.p) \div 12 - 1) :
                 Ord16(byteOrder, SubSeq(cur.p, 12 * k + 1, 12 * k + 2)) = 50728
    IN  SubSeq(cur.p, 12 * k + 1, 12 * k + 12)
\* The k-th 32-bit word of its value, from 0: numerator and denominator
\* of n0, then of n1, then of n2.
NeutralWord(k) ==
    LET off == Ord32(byteOrder, SubSeq(NeutralEntry, 9, 12))
    IN  Ord32(byteOrder, SubSeq(file, off + 4 * k + 1, off + 4 * k + 4))
ThreeNeutrals ==
    /\ tAsShotNeutral \in DOMAIN features
    /\ Ord16(byteOrder, SubSeq(NeutralEntry, 3, 4)) = 5
    /\ Ord32(byteOrder, SubSeq(NeutralEntry, 5, 8)) = 3
    /\ \A k \in 0..5 : NeutralWord(k) > 0

\* The gain g, a fraction, of channel k is (1/nk)/(1/n1) = n1/nk.
GainAsStated(g, k) ==
    /\ g[2] # 0
    /\ g[1] * (NeutralWord(3) * NeutralWord(2 * k))
          = g[2] * (NeutralWord(2) * NeutralWord(2 * k + 1))

\* The gains of a write are the three of the claim.
GainsAsStated(w) ==
    IF tAsShotNeutral \notin DOMAIN features
    THEN w.gains = <<<<1, 1>>, <<1, 1>>, <<1, 1>>>>
    ELSE ThreeNeutrals
            => /\ Len(w.gains) = 3
               /\ \A k \in 0..2 : GainAsStated(w.gains[k + 1], k)

\* C17: on the CFA path the gains handed to the demosaicing are
\* (1/nk)/(1/n1) for k = 0, 1, 2 when AsShotNeutral = {n0, n1, n2} is
\* present, and {1, 1, 1} when it is absent.
C17_WhiteBalance ==
    [][(pc = "decode" /\ mode = "mColorFilterArray")
        => \A w \in NewWrites : GainsAsStated(w)]_vars

\* The same for files in which n1 = 1 (little-endian, where the stored
\* numerator is the one the accessor reads).
C17_WhiteBalanceGreenOne ==
    [][(/\ pc = "decode"
        /\ mode = "mColorFilterArray"
        /\ byteOrder = "LE"
        /\ ThreeNeutrals => NeutralWord(2) = NeutralWord(3))
        => \A w \in NewWrites : GainsAsStated(w)]_vars

Control(b) == IF b > 127 THEN b - 256 ELSE b

RECURSIVE AtBoundary(_)
\* The input s ends where a control byte is expected: it is a sequence
\* of whole packets.
AtBoundary(s) ==
    IF Len(s) = 0 THEN TRUE
    ELSE IF Control(s[1]) >= 0
    THEN Len(s) >= Control(s[1]) + 2
         /\ AtBoundary(SubSeq(s, Control(s[1]) + 3, Len(s)))
    ELSE IF Control(s[1]) = -128 THEN AtBoundary(Tail(s))
    ELSE Len(s) >= 2 /\ AtBoundary(SubSeq(s, 3, Len(s)))

RECURSIVE Unpacked(_)
\* The output the packets of s stand for.
Unpacked(s) ==
    IF Len(s) = 0 THEN <<>>
    ELSE IF Control(s[1]) >= 0
    THEN SubSeq(s, 2, Control(s[1]) + 2)
         \o Unpacked(SubSeq(s, Control(s[1]) + 3, Len(s)))
    ELSE IF Control(s[1]) = -128 THEN Unpacked(Tail(s))
    ELSE [i \in 1..(1 - Control(s[1])) |-> s[2]]
         \o Unpacked(SubSeq(s, 3, Len(s)))

\* C19: for an input that ends at a control-byte boundary unpackBits
\* returns, in input order, the next c + 1 bytes for a control byte
\* c >= 0, nothing for c = -128 and the next byte 1 - c times for
\* -127 <= c <= -1; [2, 0x41, 0x42, 0x43] gives 41 42 43, [0xFE, 0x41]
\* gives 41 41 41 and [0x80] gives nothing.
C19_PackBits ==
    (pc = "done" /\ api = "unpackBits")
       => /\ AtBoundary(file) => (err = NoErr /\ buf = Unpacked(file))
          /\ file = <<2, 65, 66, 67>> => buf = <<65, 66, 67>>
          /\ file = <<254, 65>> => buf = <<65, 65, 65>>
          /\ file = <<128>> => (err = NoErr /\ buf = <<>>)

\* A repeat and a literal run were unpacked in order.
C19_Witness ==
    /\ pc = "done"
    /\ api = "unpackBits"
    /\ file = <<254, 65, 0, 66>>
    /\ err = NoErr
    /\ buf = <<65, 65, 65, 66>>

\* C20: unpackBits returns without error only when the input ends where
\* a control byte is expected; when it ends inside a literal run or
\* right after a repeat control byte, it returns an error and no output.
C20_EndOfInput ==
    (pc = "done" /\ api = "unpackBits")
       => /\ err = NoErr => AtBoundary(file)
          /\ ~AtBoundary(file) => (err # NoErr /\ buf = <<>>)

\* The input ended inside a literal run after a whole repeat packet: an
\* error and no output, the three repeated bytes included.
C20_Witness ==
    /\ pc = "done"
    /\ api = "unpackBits"
    /\ file = <<254, 65, 2, 66>>
    /\ err # NoErr
    /\ buf = <<>>

\* The bytes per pixel of the mode unRLE is called with.
LaneCount == IF mode = "mLogL" THEN 2 ELSE 4

RECURSIVE LaneFrom(_, _, _, _)
\* The codes of s from position k on that total exactly need bytes:
\* whether there are such codes, the bytes they stand for and the
\* position after them.
LaneFrom(s, k, need, acc) ==
    IF Len(acc) = need THEN [ok |-> TRUE, bytes |-> acc, next |-> k]
    ELSE IF Len(acc) > need \/ k > Len(s)
    THEN [ok |-> FALSE, bytes |-> acc, next |-> k]
    ELSE IF s[k] >= 128
    THEN IF k + 1 > Len(s) THEN [ok |-> FALSE, bytes |-> acc, next |-> k]
         ELSE LaneFrom(s, k + 2, need,
                       acc \o [i \in 1..(s[k] - 126) |-> s[k + 1]])
    ELSE IF k + s[k] > Len(s) THEN [ok |-> FALSE, bytes |-> acc, next |-> k]
    ELSE LaneFrom(s, k + 1 + s[k], need, acc \o SubSeq(s, k + 1, k + s[k]))

RECURSIVE LaneStart(_, _, _)
\* The position in s of the codes of lane n (row n div LaneCount, channel
\* n mod LaneCount) of scanlines of W pixels, or 0 when an earlier lane
\* is not well formed.
LaneStart(s, W, n) ==
    IF n = 0 THEN 1
    ELSE LET p == LaneStart(s, W, n - 1)
         IN  IF p = 0 THEN 0
             ELSE LET l == LaneFrom(s, p, W, <<>>)
                  IN  IF l.ok THEN l.next ELSE 0

Lane(n) == LaneFrom(file, LaneStart(file, geo.blockWidth, n), geo.blockWidth, <<>>)

\* In every scanline each channel's codes total exactly blockWidth bytes.
WellFormedRLE ==
    \A n \in 0..(geo.blockHeight * LaneCount - 1) :
        LaneStart(file, geo.blockWidth, n) # 0 /\ Lane(n).ok

\* C21: for a well-formed stream unRLE returns blockWidth x blockHeight x
\* s bytes (s = 2 for LogL, 4 for LogLuv) in which the k-th byte decoded
\* for channel c of row r is at index r*blockWidth*s + k*s + c, a control
\* byte b >= 128 standing for b - 126 copies of the next byte and a
\* control byte b < 128 for the next b bytes.
C21_Deinterleave ==
    (pc = "done" /\ api = "unRLE" /\ WellFormedRLE)
       => /\ err = NoErr
          /\ Len(buf) = geo.blockWidth * geo.blockHeight * LaneCount
          /\ \A r \in 0..(geo.blockHeight - 1) :
             \A c \in 0..(LaneCount - 1) :
             \A k \in 0..(geo.blockWidth - 1) :
                buf[r * geo.blockWidth * LaneCount + k * LaneCount + c + 1]
                   = Lane(r * LaneCount + c).bytes[k + 1]

\* A LogL scanline of two pixels, a literal for the first channel and a
\* run for the second, came out with the channels alternating.
C21_Witness ==
    /\ pc = "done"
    /\ api = "unRLE"
    /\ mode = "mLogL"
    /\ geo.blockWidth = 2
    /\ geo.blockHeight = 1
    /\ file = <<2, 65, 66, 128, 67>>
    /\ err = NoErr
    /\ buf = <<65, 67, 66, 67>>

\* The tile width and length of the image, and the bytes of one pixel.
TileW == features[tTileWidth].val[1][2]
TileL == features[tTileLength].val[1][2]
PixelBytes == IF mode = "mRGB" THEN 12 ELSE IF mode = "mLogL" THEN 2 ELSE 4

\* A tiled image whose width is not a multiple of the tile width is being
\* rasterized.
Overhanging ==
    /\ m # Nil
    /\ mode \in {"mRGB", "mLogL", "mLogLuv"}
    /\ tTileWidth \in DOMAIN features
    /\ tTileLength \in DOMAIN features
    /\ Len(features[tTileWidth].val) > 0
    /\ Len(features[tTileLength].val) > 0
    /\ TileW > 0
    /\ m.w % TileW # 0

\* C22: in an edge tile of such an image the pixel (x, y) is read at the
\* offset ((y - ymin) * tileWidth + (x - xmin)) * bytesPerPixel of the
\* tile's buffer, the padding columns of each tile row being skipped.
C22_PaddingSkipped ==
    Overhanging
       => \A pt \in DOMAIN m.px :
          \A n \in 1..Len(m.px[pt]) :
             m.px[pt][n].blk[1] = m.w \div TileW
                => m.px[pt][n].off
                      = ((pt[2] - m.px[pt][n].blk[2] * TileL) * TileW
                         + (pt[1] - m.px[pt][n].blk[1] * TileW)) * PixelBytes

\* The same for edge tiles of which one row is inside the image.
C22_OneRow ==
    (Overhanging /\ (m.h <= 1 \/ TileL <= 1)) => C22_PaddingSkipped

\* Decode returned an image.
Decoded ==
    /\ pc = "done"
    /\ api = "Decode"
    /\ err = NoErr
    /\ "px" \in DOMAIN ret

\* The pixel pt of the returned image was set once, from the block of
\* its column and row of blocks.
SetOnce(pt) ==
    /\ Len(ret.px[pt]) = 1
    /\ geo.blockWidth > 0
    /\ geo.blockHeight > 0
    /\ ret.px[pt][1].blk
          = <<pt[1] \div geo.blockWidth, pt[2] \div geo.blockHeight>>

\* C23: after a successful Decode of a W x H image, whatever RowsPerStrip,
\* TileWidth and TileLength (zero included) passed the geometry check,
\* every pixel of the image has been set exactly once, from the block at
\* index (y div blockHeight) * blocksAcross + (x div blockWidth).
C23_Coverage ==
    Decoded
       => /\ DOMAIN ret.px = (0..(config.Width - 1)) \X (0..(config.Height - 1))
          /\ \A pt \in DOMAIN ret.px : SetOnce(pt)

\* The same for geometries whose block height is not zero.
C23_CoverageNonZero ==
    (Decoded /\ geo.blockHeight > 0) => C23_Coverage

\* The width and height of the rectangle of the block being rasterized,
\* clipped to the image.
ClippedW ==
    IF (blk.i + 1) * geo.blockWidth <= config.Width THEN geo.blockWidth
    ELSE config.Width - blk.i * geo.blockWidth
ClippedH ==
    IF (blk.j + 1) * geo.blockHeight <= config.Height THEN geo.blockHeight
    ELSE config.Height - blk.j * geo.blockHeight

\* The block about to be rasterized has fewer bytes than its clipped
\* rectangle needs.
ShortBuffer ==
    /\ pc = "decode"
    /\ mode \in {"mRGB", "mLogL", "mLogLuv"}
    /\ ClippedW > 0
    /\ ClippedH > 0
    /\ Len(buf) < ClippedW * ClippedH * PixelBytes

\* C24: a block whose decompressed buffer is shorter than clippedWidth x
\* clippedHeight x bytesPerPixel makes Decode return an error.
C24_ShortBufferError ==
    [][ShortBuffer
        => /\ pc' = "done"
           /\ err'.kind \in {"format", "unsupported", "io"}]_vars

\* Such a block never lets Decode go on: the call ends there, with an
\* error or with a crash.
C24_ShortBufferStops ==
    [][ShortBuffer => (pc' = "done" /\ err' # NoErr)]_vars

\* The scanlines whose decoding the stream can have completed: a lane of
\* a scanline takes at least one code of two bytes.
RowsCompletable == Len(file) \div (2 * LaneCount)

\* C25: on any stream and any block size unRLE returns an error or the
\* full buffer, and no byte is written outside the scanline being
\* decoded: a code longer than the pixels still missing in the scanline
\* leaves the following scanlines untouched.
C25_WriteBounds ==
    (pc = "done" /\ api = "unRLE")
       => /\ err.kind \in {"none", "io"}
          /\ err = NoErr
                => Len(buf) = geo.blockWidth * geo.blockHeight * LaneCount
          /\ \A x \in 1..Len(buf) :
                buf[x] # 0
                   => (x - 1) \div (geo.blockWidth * LaneCount)
                         <= RowsCompletable

\* The part of it that concerns the length of the buffer returned.
C25_FullBuffer ==
    (pc = "done" /\ api = "unRLE" /\ err = NoErr)
       => Len(buf) = geo.blockWidth * geo.blockHeight * LaneCount

\* n: the number of offsets in the SubIFDs tag of IFD 0.
SubCount ==
    IF Len(tree) > 0 /\ tSubIFDs \in DOMAIN tree[1]
    THEN Len(tree[1][tSubIFDs].val) ELSE 0

\* The 12 bytes of entry j of the directory of the file at offset off,
\* and the number of its entries.
DirCount(off) == Ord16(byteOrder, SubSeq(file, off + 1, off + 2))
DirEntry(off, j) == SubSeq(file, off + 12 * j - 9, off + 12 * j + 2)

\* The slot t of the tree holds the directory at offset off: the
\* recognized tags of its entries, with its own ImageLength.
SlotHolds(t, off) ==
    /\ DOMAIN t
          = {Ord16(byteOrder, SubSeq(DirEntry(off, j), 1, 2)) :
                j \in 1..DirCount(off)} \cap RecognizedTags
    /\ \A j \in 1..DirCount(off) :
          Ord16(byteOrder, SubSeq(DirEntry(off, j), 1, 2)) = 257
             => t[257].val
                   = <<<<0, Ord16(byteOrder, SubSeq(DirEntry(off, j), 9, 10))>>>>

\* newIDF is still parsing the main IFD.
InMainIFD ==
    \/ pc = "newIDF"
    \/ pc \in {"openIFD", "parseIFD", "mainIFD"} /\ cur.fi = 0
    \/ pc = "done" /\ cur.fi = 0 /\ features = EmptyMap

\* The tree never has more than 1 + n slots; when every directory has been
\* parsed it has exactly 1 + n, slot 0 holding the main IFD and slot k the
\* k-th listed SubIFD.
TreeShape ==
    /\ InMainIFD => Len(tree) <= 1
    /\ Len(tree) <= 1 + SubCount
    /\ pc \in {"primary", "newDecoder"}
          => /\ Len(tree) = 1 + SubCount
             /\ SlotHolds(tree[1], Ord32(byteOrder, SubSeq(file, 5, 8)))
             /\ \A k \in 1..SubCount :
                   SlotHolds(tree[k + 1], tree[1][tSubIFDs].val[k][2])

\* newIDF has returned.
NewIDFReturned ==
    pc \notin {"newIDF", "openIFD", "parseIFD", "mainIFD", "subIFDs", "primary"}

\* C26: newIDF returns on every input, after parsing at most 1 + n
\* directories, n being the number of offsets in the SubIFDs tag of IFD 0,
\* whatever those offsets are and whatever SubIFDs tags the sub-IFDs hold;
\* on success the tree has exactly 1 + n slots, slot 0 holding the main IFD
\* and slot k the k-th listed SubIFD.
C26_TerminatesWithTree == []TreeShape /\ <>NewIDFReturned

\* A main IFD that lists a SubIFD, itself, and the SubIFD again was
\* parsed into four slots.
C26_Witness ==
    /\ pc = "newDecoder"
    /\ SubCount = 3
    /\ Len(tree) = 4
    /\ tree[1][tSubIFDs].val[2][2] = Ord32(byteOrder, SubSeq(file, 5, 8))
    /\ tree[3] = tree[1]
    /\ tree[4] = tree[2]
    /\ tree[2] # tree[1]
====
